---- MODULE Spec2Model ----
(***************************************************************************)
(* CloudFront resources of the Terraform AWS provider: cache policy,       *)
(* origin request policy, response headers policy, public key, function    *)
(* and monitoring subscription.  The module models                         *)
(*   - the Go values the expand/flatten converters exchange, with their    *)
(*     dynamic types, because the converters select fields by type         *)
(*     assertion;                                                          *)
(*   - the expand/flatten converters as operators;                         *)
(*   - the create/read/update/delete handlers as actions over the          *)
(*     resource data (ID and attributes) and the remote CloudFront object. *)
(***************************************************************************)
EXTENDS Integers, Sequences, FiniteSets, TLC

(***************************************************************************)
(* Bounds of the model.                                                    *)
(***************************************************************************)
\* longest item list of a configured set
MaxItems == 2
\* largest ETag version the remote hands out
MaxETag == 3

(***************************************************************************)
(* Go values.  A value held in an interface{} is a record carrying its     *)
(* dynamic type t; exactly one of b, s, n, l is meaningful for a type.     *)
(* A pointer of the API structs is a sequence of length 0 (nil) or 1.      *)
(***************************************************************************)
None == <<>>

Some(x) == <<x>>

IsSome(p) == Len(p) > 0

GoNil == [t |-> "nil", b |-> FALSE, s |-> "", n |-> 0, l |-> <<>>]

GoBool(x) == [GoNil EXCEPT !.t = "bool", !.b = x]

GoBoolPtr(x) == [GoNil EXCEPT !.t = "*bool", !.b = x]

GoString(x) == [GoNil EXCEPT !.t = "string", !.s = x]

\* a value of a named string type (an SDK enum): not assertable to string
GoEnum(ty, x) == [GoNil EXCEPT !.t = ty, !.s = x]

GoInt(x) == [GoNil EXCEPT !.t = "int", !.n = x]

GoInt32Ptr(x) == [GoNil EXCEPT !.t = "*int32", !.n = x]

GoFloat64(x) == [GoNil EXCEPT !.t = "float64", !.n = x]

GoFloat64Ptr(x) == [GoNil EXCEPT !.t = "*float64", !.n = x]

\* *schema.Set: l is the set's elements in the order List() returns them
GoSet(elems) == [GoNil EXCEPT !.t = "*schema.Set", !.l = elems]

\* a typed slice ([]string, []*string, []awstypes.X): l holds the elements
GoSlice(ty, elems) == [GoNil EXCEPT !.t = ty, !.l = elems]

\* []interface{}
GoList(elems) == [GoNil EXCEPT !.t = "[]interface{}", !.l = elems]

\* map[string]interface{}: l holds the one record of the map's keys
GoMap(rec) == [GoNil EXCEPT !.t = "map[string]interface{}", !.l = <<rec>>]

\* v, ok := x.(T): ok
IsA(x, ty) == x.t = ty

\* tfMap[k]; a key the map does not hold yields the nil interface
Key(tfMap, k) == IF k \in DOMAIN tfMap.l[1] THEN tfMap.l[1][k] ELSE GoNil

\* len(tfMap) of a map[string]interface{}; len of a nil map is 0
MapLen(m) ==
  IF m.t = "nil" THEN 0
  ELSE Cardinality({k \in DOMAIN m.l[1] : m.l[1][k].t # "nil"})

\* v, ok := tfMap[k].([]interface{}); ok && len(v) > 0 && v[0] != nil
HasBlock(tfMap, k) ==
  /\ IsA(Key(tfMap, k), "[]interface{}")
  /\ Len(Key(tfMap, k).l) > 0
  /\ Key(tfMap, k).l[1].t # "nil"

\* v[0].(map[string]interface{}) of tfMap[k]
Block(tfMap, k) == Key(tfMap, k).l[1]

\* v, ok := tfMap[k].(string); ok && v != ""
HasString(tfMap, k) == IsA(Key(tfMap, k), "string") /\ Key(tfMap, k).s # ""

\* v, ok := tfMap[k].(*schema.Set); ok && v.Len() > 0
HasSet(tfMap, k) == IsA(Key(tfMap, k), "*schema.Set") /\ Len(Key(tfMap, k).l) > 0

\* v, ok := tfMap[k].(bool): the pointer set when ok
BoolOf(tfMap, k) ==
  IF IsA(Key(tfMap, k), "bool") THEN Some(Key(tfMap, k).b) ELSE None

(***************************************************************************)
(* Cache policy: expand (Terraform map -> API struct).                     *)
(***************************************************************************)
\* flex.ExpandStringSet / flex.ExpandStringValueSet: the elements of the set
ExpandStringSet(v) == v.l

\* the names wrapper shared by CookieNames, Headers and QueryStringNames
ExpandNames(tfMap) ==
  IF tfMap.t = "nil" THEN None
  ELSE LET ok == HasSet(tfMap, "items")
           items == ExpandStringSet(Key(tfMap, "items"))
       IN Some([Items |-> IF ok THEN items ELSE <<>>,
                Quantity |-> IF ok THEN Some(Len(items)) ELSE None])

expandCookieNames(tfMap) == ExpandNames(tfMap)

expandHeaders(tfMap) == ExpandNames(tfMap)

expandQueryStringNames(tfMap) == ExpandNames(tfMap)

expandCachePolicyCookiesConfig(tfMap) ==
  IF tfMap.t = "nil" THEN None
  ELSE Some([CookieBehavior |->
               IF HasString(tfMap, "cookie_behavior")
               THEN Key(tfMap, "cookie_behavior").s ELSE "",
             Cookies |->
               IF HasBlock(tfMap, "cookies")
               THEN expandCookieNames(Block(tfMap, "cookies")) ELSE None])

expandCachePolicyHeadersConfig(tfMap) ==
  IF tfMap.t = "nil" THEN None
  ELSE Some([HeaderBehavior |->
               IF HasString(tfMap, "header_behavior")
               THEN Key(tfMap, "header_behavior").s ELSE "",
             Headers |->
               IF HasBlock(tfMap, "headers")
               THEN expandHeaders(Block(tfMap, "headers")) ELSE None])

expandCachePolicyQueryStringsConfig(tfMap) ==
  IF tfMap.t = "nil" THEN None
  ELSE Some([QueryStringBehavior |->
               IF HasString(tfMap, "query_string_behavior")
               THEN Key(tfMap, "query_string_behavior").s ELSE "",
             QueryStrings |->
               IF HasBlock(tfMap, "query_strings")
               THEN expandQueryStringNames(Block(tfMap, "query_strings"))
               ELSE None])

\* v, ok := tfMap[k].([]interface{}); ok && len(v) > 0   (v[0] is not tested)
HasList(tfMap, k) == IsA(Key(tfMap, k), "[]interface{}") /\ Len(Key(tfMap, k).l) > 0

expandParametersInCacheKeyAndForwardedToOrigin(tfMap) ==
  IF tfMap.t = "nil" THEN None
  ELSE Some([CookiesConfig |->
               IF HasList(tfMap, "cookies_config")
               THEN expandCachePolicyCookiesConfig(Block(tfMap, "cookies_config"))
               ELSE None,
             EnableAcceptEncodingBrotli |-> BoolOf(tfMap, "enable_accept_encoding_brotli"),
             EnableAcceptEncodingGzip |-> BoolOf(tfMap, "enable_accept_encoding_gzip"),
             HeadersConfig |->
               IF HasList(tfMap, "headers_config")
               THEN expandCachePolicyHeadersConfig(Block(tfMap, "headers_config"))
               ELSE None,
             QueryStringsConfig |->
               IF HasList(tfMap, "query_strings_config")
               THEN expandCachePolicyQueryStringsConfig(Block(tfMap, "query_strings_config"))
               ELSE None])

(***************************************************************************)
(* Cache policy: flatten (API struct -> Terraform map).  A key the         *)
(* function does not set is the nil interface in the record.               *)
(***************************************************************************)
\* the map holding the one key k exactly when `present`
OneKey(k, present, v) == GoMap([x \in {k} |-> IF present THEN v ELSE GoNil])

\* []interface{}{v} under key k when len(v) > 0
Nested(v) == IF MapLen(v) > 0 THEN GoList(<<v>>) ELSE GoNil

FlattenNames(apiObject) ==
  IF apiObject = None THEN GoNil
  ELSE OneKey("items", Len(apiObject[1].Items) > 0,
              GoSlice("[]string", apiObject[1].Items))

flattenCookieNames(apiObject) == FlattenNames(apiObject)

flattenHeaders(apiObject) == FlattenNames(apiObject)

flattenQueryStringNames(apiObject) == FlattenNames(apiObject)

flattenCachePolicyCookiesConfig(apiObject) ==
  IF apiObject = None THEN GoNil
  ELSE GoMap([cookie_behavior |->
                IF apiObject[1].CookieBehavior # ""
                THEN GoEnum("awstypes.CachePolicyCookieBehavior", apiObject[1].CookieBehavior)
                ELSE GoNil,
              cookies |-> Nested(flattenCookieNames(apiObject[1].Cookies))])

flattenCachePolicyHeadersConfig(apiObject) ==
  IF apiObject = None THEN GoNil
  ELSE GoMap([header_behavior |->
                IF apiObject[1].HeaderBehavior # ""
                THEN GoEnum("awstypes.CachePolicyHeaderBehavior", apiObject[1].HeaderBehavior)
                ELSE GoNil,
              headers |-> Nested(flattenHeaders(apiObject[1].Headers))])

flattenCachePolicyQueryStringsConfig(apiObject) ==
  IF apiObject = None THEN GoNil
  ELSE GoMap([query_string_behavior |->
                IF apiObject[1].QueryStringBehavior # ""
                THEN GoEnum("awstypes.CachePolicyQueryStringBehavior",
                            apiObject[1].QueryStringBehavior)
                ELSE GoNil,
              query_strings |-> Nested(flattenQueryStringNames(apiObject[1].QueryStrings))])

flattenParametersInCacheKeyAndForwardedToOrigin(apiObject) ==
  IF apiObject = None THEN GoNil
  ELSE GoMap([cookies_config |->
                Nested(flattenCachePolicyCookiesConfig(apiObject[1].CookiesConfig)),
              enable_accept_encoding_brotli |->
                IF IsSome(apiObject[1].EnableAcceptEncodingBrotli)
                THEN GoBoolPtr(apiObject[1].EnableAcceptEncodingBrotli[1]) ELSE GoNil,
              enable_accept_encoding_gzip |->
                IF IsSome(apiObject[1].EnableAcceptEncodingGzip)
                THEN GoBoolPtr(apiObject[1].EnableAcceptEncodingGzip[1]) ELSE GoNil,
              headers_config |->
                Nested(flattenCachePolicyHeadersConfig(apiObject[1].HeadersConfig)),
              query_strings_config |->
                Nested(flattenCachePolicyQueryStringsConfig(apiObject[1].QueryStringsConfig))])

(***************************************************************************)
(* Origin request policy: expand and flatten.                              *)
(***************************************************************************)
expandOriginRequestPolicyCookiesConfig(tfMap) ==
  IF tfMap.t = "nil" THEN None
  ELSE Some([CookieBehavior |->
               IF HasString(tfMap, "cookie_behavior")
               THEN Key(tfMap, "cookie_behavior").s ELSE "",
             Cookies |->
               IF HasBlock(tfMap, "cookies")
               THEN expandCookieNames(Block(tfMap, "cookies")) ELSE None])

expandOriginRequestPolicyHeadersConfig(tfMap) ==
  IF tfMap.t = "nil" THEN None
  ELSE Some([HeaderBehavior |->
               IF HasString(tfMap, "header_behavior")
               THEN Key(tfMap, "header_behavior").s ELSE "",
             Headers |->
               IF HasBlock(tfMap, "headers")
               THEN expandHeaders(Block(tfMap, "headers")) ELSE None])

expandOriginRequestPolicyQueryStringsConfig(tfMap) ==
  IF tfMap.t = "nil" THEN None
  ELSE Some([QueryStringBehavior |->
               IF HasString(tfMap, "query_string_behavior")
               THEN Key(tfMap, "query_string_behavior").s ELSE "",
             QueryStrings |->
               IF HasBlock(tfMap, "query_strings")
               THEN expandQueryStringNames(Block(tfMap, "query_strings"))
               ELSE None])

flattenOriginRequestPolicyCookiesConfig(apiObject) ==
  IF apiObject = None THEN GoNil
  ELSE GoMap([cookie_behavior |->
                IF apiObject[1].CookieBehavior # ""
                THEN GoEnum("awstypes.OriginRequestPolicyCookieBehavior",
                            apiObject[1].CookieBehavior)
                ELSE GoNil,
              cookies |-> Nested(flattenCookieNames(apiObject[1].Cookies))])

flattenOriginRequestPolicyHeadersConfig(apiObject) ==
  IF apiObject = None THEN GoNil
  ELSE GoMap([header_behavior |->
                IF apiObject[1].HeaderBehavior # ""
                THEN GoEnum("awstypes.OriginRequestPolicyHeaderBehavior",
                            apiObject[1].HeaderBehavior)
                ELSE GoNil,
              headers |-> Nested(flattenHeaders(apiObject[1].Headers))])

flattenOriginRequestPolicyQueryStringsConfig(apiObject) ==
  IF apiObject = None THEN GoNil
  ELSE GoMap([query_string_behavior |->
                IF apiObject[1].QueryStringBehavior # ""
                THEN GoEnum("awstypes.OriginRequestPolicyQueryStringBehavior",
                            apiObject[1].QueryStringBehavior)
                ELSE GoNil,
              query_strings |-> Nested(flattenQueryStringNames(apiObject[1].QueryStrings))])

(***************************************************************************)
(* Monitoring subscription: expand and flatten.                            *)
(***************************************************************************)
expandRealtimeMetricsSubscriptionConfig(tfMap) ==
  IF tfMap.t = "nil" THEN None
  ELSE Some([RealtimeMetricsSubscriptionStatus |->
               IF HasString(tfMap, "realtime_metrics_subscription_status")
               THEN Key(tfMap, "realtime_metrics_subscription_status").s ELSE ""])

expandMonitoringSubscription(tfMap) ==
  IF tfMap.t = "nil" THEN None
  ELSE Some([RealtimeMetricsSubscriptionConfig |->
               IF HasList(tfMap, "realtime_metrics_subscription_config")
               THEN expandRealtimeMetricsSubscriptionConfig(
                      Block(tfMap, "realtime_metrics_subscription_config"))
               ELSE None])

\* `&v != nil` compares the address of a local with nil: it holds always
AddressOfLocalIsNotNil == TRUE

flattenRealtimeMetricsSubscriptionConfig(apiObject) ==
  IF apiObject = None THEN GoNil
  ELSE OneKey("realtime_metrics_subscription_status", AddressOfLocalIsNotNil,
              GoEnum("awstypes.RealtimeMetricsSubscriptionStatus",
                     apiObject[1].RealtimeMetricsSubscriptionStatus))

flattenMonitoringSubscription(apiObject) ==
  IF apiObject = None THEN GoNil
  ELSE GoMap([realtime_metrics_subscription_config |->
                Nested(flattenRealtimeMetricsSubscriptionConfig(
                         apiObject[1].RealtimeMetricsSubscriptionConfig))])

(***************************************************************************)
(* Response headers policy: cors_config.                                   *)
(***************************************************************************)
\* v, ok := tfMap[k].(int); ok && v != 0: the pointer set when both hold
NonZeroIntOf(tfMap, k) ==
  IF IsA(Key(tfMap, k), "int") /\ Key(tfMap, k).n # 0
  THEN Some(Key(tfMap, k).n) ELSE None

\* v, ok := tfMap[k].(string); ok && v != "": the pointer set when both hold
StringOf(tfMap, k) == IF HasString(tfMap, k) THEN Some(Key(tfMap, k).s) ELSE None

\* the enum field set when the string is non-empty, left "" otherwise
EnumOf(tfMap, k) == IF HasString(tfMap, k) THEN Key(tfMap, k).s ELSE ""

\* a wrapper whose Quantity is set whether or not the set has elements
ExpandItemsCountingAlways(tfMap) ==
  IF tfMap.t = "nil" THEN None
  ELSE LET items == ExpandStringSet(Key(tfMap, "items"))
       IN Some([Items |-> items, Quantity |-> Some(Len(items))])

\* the Items/Quantity wrapper filled from a set of strings
ExpandItems(tfMap) ==
  IF tfMap.t = "nil" THEN None
  ELSE LET ok == HasSet(tfMap, "items")
           items == ExpandStringSet(Key(tfMap, "items"))
       IN Some([Items |-> IF ok THEN items ELSE <<>>,
                Quantity |-> IF ok THEN Some(Len(items)) ELSE None])

expandResponseHeadersPolicyAccessControlAllowHeaders(tfMap) == ExpandItems(tfMap)

expandResponseHeadersPolicyAccessControlAllowMethods(tfMap) == ExpandItems(tfMap)

expandResponseHeadersPolicyAccessControlAllowOrigins(tfMap) == ExpandItems(tfMap)

expandResponseHeadersPolicyAccessControlExposeHeaders(tfMap) == ExpandItems(tfMap)

expandResponseHeadersPolicyCorsConfig(tfMap) ==
  IF tfMap.t = "nil" THEN None
  ELSE Some([
    AccessControlAllowCredentials |-> BoolOf(tfMap, "access_control_allow_credentials"),
    AccessControlAllowHeaders |->
      IF HasBlock(tfMap, "access_control_allow_headers")
      THEN expandResponseHeadersPolicyAccessControlAllowHeaders(
             Block(tfMap, "access_control_allow_headers"))
      ELSE None,
    AccessControlAllowMethods |->
      IF HasBlock(tfMap, "access_control_allow_methods")
      THEN expandResponseHeadersPolicyAccessControlAllowMethods(
             Block(tfMap, "access_control_allow_methods"))
      ELSE None,
    AccessControlAllowOrigins |->
      IF HasBlock(tfMap, "access_control_allow_origins")
      THEN expandResponseHeadersPolicyAccessControlAllowOrigins(
             Block(tfMap, "access_control_allow_origins"))
      ELSE None,
    AccessControlExposeHeaders |->
      IF HasBlock(tfMap, "access_control_expose_headers")
      THEN expandResponseHeadersPolicyAccessControlExposeHeaders(
             Block(tfMap, "access_control_expose_headers"))
      ELSE None,
    AccessControlMaxAgeSec |-> NonZeroIntOf(tfMap, "access_control_max_age_sec"),
    OriginOverride |-> BoolOf(tfMap, "origin_override")])

\* a pointer field flattened with aws.ToBool / aws.ToString: a plain value
FlatBool(p) == IF IsSome(p) THEN GoBool(p[1]) ELSE GoNil

FlatString(p) == IF IsSome(p) THEN GoString(p[1]) ELSE GoNil

\* a pointer field flattened with aws.Bool(*v) / aws.Int32(*v): a pointer again
FlatBoolPtr(p) == IF IsSome(p) THEN GoBoolPtr(p[1]) ELSE GoNil

FlatInt32Ptr(p) == IF IsSome(p) THEN GoInt32Ptr(p[1]) ELSE GoNil

FlatFloat64Ptr(p) == IF IsSome(p) THEN GoFloat64Ptr(p[1]) ELSE GoNil

\* items flattened under key "items" as a slice of Go type ty
FlattenItems(apiObject, ty) ==
  IF apiObject = None THEN GoNil
  ELSE OneKey("items", Len(apiObject[1].Items) > 0, GoSlice(ty, apiObject[1].Items))

flattenResponseHeadersPolicyAccessControlAllowHeaders(apiObject) ==
  FlattenItems(apiObject, "[]*string")

flattenResponseHeadersPolicyAccessControlAllowMethods(apiObject) ==
  FlattenItems(apiObject, "[]awstypes.ResponseHeadersPolicyAccessControlAllowMethodsValues")

flattenResponseHeadersPolicyAccessControlAllowOrigins(apiObject) ==
  FlattenItems(apiObject, "[]*string")

flattenResponseHeadersPolicyAccessControlExposeHeaders(apiObject) ==
  FlattenItems(apiObject, "[]*string")

flattenResponseHeadersPolicyCorsConfig(apiObject) ==
  IF apiObject = None THEN GoNil
  ELSE GoMap([
    access_control_allow_credentials |-> FlatBool(apiObject[1].AccessControlAllowCredentials),
    access_control_allow_headers |->
      Nested(flattenResponseHeadersPolicyAccessControlAllowHeaders(
               apiObject[1].AccessControlAllowHeaders)),
    access_control_allow_methods |->
      Nested(flattenResponseHeadersPolicyAccessControlAllowMethods(
               apiObject[1].AccessControlAllowMethods)),
    access_control_allow_origins |->
      Nested(flattenResponseHeadersPolicyAccessControlAllowOrigins(
               apiObject[1].AccessControlAllowOrigins)),
    access_control_expose_headers |->
      Nested(flattenResponseHeadersPolicyAccessControlExposeHeaders(
               apiObject[1].AccessControlExposeHeaders)),
    access_control_max_age_sec |-> FlatInt32Ptr(apiObject[1].AccessControlMaxAgeSec),
    origin_override |-> FlatBool(apiObject[1].OriginOverride)])

(***************************************************************************)
(* Response headers policy: custom_headers_config, remove_headers_config.  *)
(***************************************************************************)
IsMap(e) == e.t = "map[string]interface{}"

expandResponseHeadersPolicyCustomHeader(tfMap) ==
  IF tfMap.t = "nil" THEN None
  ELSE Some([Header |-> StringOf(tfMap, "header"),
             Override |-> BoolOf(tfMap, "override"),
             Value |-> StringOf(tfMap, "value")])

expandResponseHeadersPolicyCustomHeaders(tfList) ==
  IF Len(tfList) = 0 THEN <<>>
  ELSE LET maps == SelectSeq(tfList, IsMap)
       IN [i \in 1..Len(maps) |-> expandResponseHeadersPolicyCustomHeader(maps[i])[1]]

expandResponseHeadersPolicyCustomHeadersConfig(tfMap) ==
  IF tfMap.t = "nil" THEN None
  ELSE LET ok == HasSet(tfMap, "items")
           items == expandResponseHeadersPolicyCustomHeaders(Key(tfMap, "items").l)
       IN Some([Items |-> IF ok THEN items ELSE <<>>,
                Quantity |-> IF ok THEN Some(Len(items)) ELSE None])

flattenResponseHeadersPolicyCustomHeader(apiObject) ==
  IF apiObject = None THEN GoNil
  ELSE GoMap([header |-> FlatString(apiObject[1].Header),
              override |-> FlatBool(apiObject[1].Override),
              value |-> FlatString(apiObject[1].Value)])

NonEmptyMap(m) == MapLen(m) > 0

flattenResponseHeadersPolicyCustomHeaders(apiObjects) ==
  IF Len(apiObjects) = 0 THEN <<>>
  ELSE SelectSeq([i \in 1..Len(apiObjects) |->
                    flattenResponseHeadersPolicyCustomHeader(Some(apiObjects[i]))],
                 NonEmptyMap)

\* the struct is passed by value: the nil test of its address never holds
flattenResponseHeadersPolicyCustomHeadersConfig(apiObject) ==
  OneKey("items", Len(apiObject.Items) > 0,
         GoList(flattenResponseHeadersPolicyCustomHeaders(apiObject.Items)))

expandResponseHeadersPolicyRemoveHeader(tfMap) ==
  IF tfMap.t = "nil" THEN None
  ELSE Some([Header |-> StringOf(tfMap, "header")])

expandResponseHeadersPolicyRemoveHeaders(tfList) ==
  IF Len(tfList) = 0 THEN <<>>
  ELSE LET maps == SelectSeq(tfList, IsMap)
       IN [i \in 1..Len(maps) |-> expandResponseHeadersPolicyRemoveHeader(maps[i])[1]]

expandResponseHeadersPolicyRemoveHeadersConfig(tfMap) ==
  IF tfMap.t = "nil" THEN None
  ELSE LET ok == HasSet(tfMap, "items")
           items == expandResponseHeadersPolicyRemoveHeaders(Key(tfMap, "items").l)
       IN Some([Items |-> IF ok THEN items ELSE <<>>,
                Quantity |-> IF ok THEN Some(Len(items)) ELSE None])

flattenResponseHeadersPolicyRemoveHeader(apiObject) ==
  IF apiObject = None THEN GoNil
  ELSE GoMap([header |-> FlatString(apiObject[1].Header)])

flattenResponseHeadersPolicyRemoveHeaders(apiObjects) ==
  IF Len(apiObjects) = 0 THEN <<>>
  ELSE SelectSeq([i \in 1..Len(apiObjects) |->
                    flattenResponseHeadersPolicyRemoveHeader(Some(apiObjects[i]))],
                 NonEmptyMap)

flattenResponseHeadersPolicyRemoveHeadersConfig(apiObject) ==
  IF apiObject = None THEN GoNil
  ELSE OneKey("items", Len(apiObject[1].Items) > 0,
              GoList(flattenResponseHeadersPolicyRemoveHeaders(apiObject[1].Items)))

(***************************************************************************)
(* Response headers policy: security_headers_config.                       *)
(***************************************************************************)
expandResponseHeadersPolicyContentSecurityPolicy(tfMap) ==
  IF tfMap.t = "nil" THEN None
  ELSE Some([ContentSecurityPolicy |-> StringOf(tfMap, "content_security_policy"),
             Override |-> BoolOf(tfMap, "override")])

expandResponseHeadersPolicyContentTypeOptions(tfMap) ==
  IF tfMap.t = "nil" THEN None
  ELSE Some([Override |-> BoolOf(tfMap, "override")])

expandResponseHeadersPolicyFrameOptions(tfMap) ==
  IF tfMap.t = "nil" THEN None
  ELSE Some([FrameOption |-> EnumOf(tfMap, "frame_option"),
             Override |-> BoolOf(tfMap, "override")])

expandResponseHeadersPolicyReferrerPolicy(tfMap) ==
  IF tfMap.t = "nil" THEN None
  ELSE Some([Override |-> BoolOf(tfMap, "override"),
             ReferrerPolicy |-> EnumOf(tfMap, "referrer_policy")])

expandResponseHeadersPolicyStrictTransportSecurity(tfMap) ==
  IF tfMap.t = "nil" THEN None
  ELSE Some([AccessControlMaxAgeSec |-> NonZeroIntOf(tfMap, "access_control_max_age_sec"),
             IncludeSubdomains |-> BoolOf(tfMap, "include_subdomains"),
             Override |-> BoolOf(tfMap, "override"),
             Preload |-> BoolOf(tfMap, "preload")])

expandResponseHeadersPolicyXSSProtection(tfMap) ==
  IF tfMap.t = "nil" THEN None
  ELSE Some([ModeBlock |-> BoolOf(tfMap, "mode_block"),
             Override |-> BoolOf(tfMap, "override"),
             Protection |-> BoolOf(tfMap, "protection"),
             ReportUri |-> StringOf(tfMap, "report_uri")])

SecurityHeadersBlocks ==
  {"content_security_policy", "content_type_options", "frame_options",
   "referrer_policy", "strict_transport_security", "xss_protection"}

expandResponseHeadersPolicySecurityHeadersConfig(tfMap) ==
  IF tfMap.t = "nil" THEN None
  ELSE Some([
    ContentSecurityPolicy |->
      IF HasList(tfMap, "content_security_policy")
      THEN expandResponseHeadersPolicyContentSecurityPolicy(
             Block(tfMap, "content_security_policy"))
      ELSE None,
    ContentTypeOptions |->
      IF HasList(tfMap, "content_type_options")
      THEN expandResponseHeadersPolicyContentTypeOptions(Block(tfMap, "content_type_options"))
      ELSE None,
    FrameOptions |->
      IF HasList(tfMap, "frame_options")
      THEN expandResponseHeadersPolicyFrameOptions(Block(tfMap, "frame_options"))
      ELSE None,
    ReferrerPolicy |->
      IF HasList(tfMap, "referrer_policy")
      THEN expandResponseHeadersPolicyReferrerPolicy(Block(tfMap, "referrer_policy"))
      ELSE None,
    StrictTransportSecurity |->
      IF HasList(tfMap, "strict_transport_security")
      THEN expandResponseHeadersPolicyStrictTransportSecurity(
             Block(tfMap, "strict_transport_security"))
      ELSE None,
    XSSProtection |->
      IF HasList(tfMap, "xss_protection")
      THEN expandResponseHeadersPolicyXSSProtection(Block(tfMap, "xss_protection"))
      ELSE None])

flattenResponseHeadersPolicyContentSecurityPolicy(apiObject) ==
  IF apiObject = None THEN GoNil
  ELSE GoMap([content_security_policy |-> FlatString(apiObject[1].ContentSecurityPolicy),
              override |-> FlatBool(apiObject[1].Override)])

flattenResponseHeadersPolicyContentTypeOptions(apiObject) ==
  IF apiObject = None THEN GoNil
  ELSE GoMap([override |-> FlatBool(apiObject[1].Override)])

flattenResponseHeadersPolicyFrameOptions(apiObject) ==
  IF apiObject = None THEN GoNil
  ELSE GoMap([frame_option |->
                IF AddressOfLocalIsNotNil
                THEN GoString(apiObject[1].FrameOption) ELSE GoNil,
              override |-> FlatBool(apiObject[1].Override)])

flattenResponseHeadersPolicyReferrerPolicy(apiObject) ==
  IF apiObject = None THEN GoNil
  ELSE GoMap([override |-> FlatBoolPtr(apiObject[1].Override),
              referrer_policy |->
                IF AddressOfLocalIsNotNil
                THEN GoEnum("awstypes.ReferrerPolicyList", apiObject[1].ReferrerPolicy)
                ELSE GoNil])

flattenResponseHeadersPolicyStrictTransportSecurity(apiObject) ==
  IF apiObject = None THEN GoNil
  ELSE GoMap([access_control_max_age_sec |-> FlatInt32Ptr(apiObject[1].AccessControlMaxAgeSec),
              include_subdomains |-> FlatBoolPtr(apiObject[1].IncludeSubdomains),
              override |-> FlatBoolPtr(apiObject[1].Override),
              preload |-> FlatBoolPtr(apiObject[1].Preload)])

flattenResponseHeadersPolicyXSSProtection(apiObject) ==
  IF apiObject = None THEN GoNil
  ELSE GoMap([mode_block |-> FlatBoolPtr(apiObject[1].ModeBlock),
              override |-> FlatBoolPtr(apiObject[1].Override),
              protection |-> FlatBoolPtr(apiObject[1].Protection),
              report_uri |-> FlatString(apiObject[1].ReportUri)])

flattenResponseHeadersPolicySecurityHeadersConfig(apiObject) ==
  IF apiObject = None THEN GoNil
  ELSE GoMap([
    content_security_policy |->
      Nested(flattenResponseHeadersPolicyContentSecurityPolicy(
               apiObject[1].ContentSecurityPolicy)),
    content_type_options |->
      Nested(flattenResponseHeadersPolicyContentTypeOptions(apiObject[1].ContentTypeOptions)),
    frame_options |->
      Nested(flattenResponseHeadersPolicyFrameOptions(apiObject[1].FrameOptions)),
    referrer_policy |->
      Nested(flattenResponseHeadersPolicyReferrerPolicy(apiObject[1].ReferrerPolicy)),
    strict_transport_security |->
      Nested(flattenResponseHeadersPolicyStrictTransportSecurity(
               apiObject[1].StrictTransportSecurity)),
    xss_protection |->
      Nested(flattenResponseHeadersPolicyXSSProtection(apiObject[1].XSSProtection))])

(***************************************************************************)
(* Response headers policy: server_timing_headers_config.                  *)
(***************************************************************************)
expandResponseHeadersPolicyServerTimingHeadersConfig(tfMap) ==
  IF tfMap.t = "nil" THEN None
  ELSE Some([Enabled |-> BoolOf(tfMap, "enabled"),
             SamplingRate |->
               IF IsA(Key(tfMap, "sampling_rate"), "float64")
               THEN Some(Key(tfMap, "sampling_rate").n) ELSE None])

flattenResponseHeadersPolicyServerTimingHeadersConfig(apiObject) ==
  IF apiObject = None THEN GoNil
  ELSE GoMap([enabled |-> FlatBoolPtr(apiObject[1].Enabled),
              sampling_rate |-> FlatFloat64Ptr(apiObject[1].SamplingRate)])

(***************************************************************************)
(* Schema-valid Terraform values of the cache-policy blocks, as d.Get      *)
(* hands them to expand: every key of the schema is present with its       *)
(* schema type, an empty configured block is the list [nil].               *)
(***************************************************************************)
ItemNames == {"a", "b"}

\* the duplicate-free item lists of at most MaxItems elements
ItemSeqs ==
  UNION {{q \in [1..n -> ItemNames] : \A i, j \in 1..n : q[i] = q[j] => i = j}
         : n \in 0..MaxItems}

\* an optional names block (cookies, headers, query_strings): unset, {} or {items}
TfNamesBlocks ==
  {GoList(<<>>), GoList(<<GoNil>>)}
    \cup {GoList(<<GoMap([items |-> GoSet(q)])>>) : q \in ItemSeqs}

CachePolicyCookieBehaviors == {"none", "whitelist"}

CachePolicyHeaderBehaviors == {"", "none", "whitelist"}

CachePolicyQueryStringBehaviors == {"none", "whitelist"}

\* a block whose attributes are all unset reads back as the nil element
BlockOf(rec, empty) == IF empty THEN GoList(<<GoNil>>) ELSE GoList(<<GoMap(rec)>>)

TfCachePolicyCookiesConfigs ==
  {BlockOf([cookie_behavior |-> GoString(b), cookies |-> c], FALSE)
     : b \in CachePolicyCookieBehaviors, c \in TfNamesBlocks}

TfCachePolicyHeadersConfigs ==
  {BlockOf([header_behavior |-> GoString(b), headers |-> c],
           b = "" /\ c = GoList(<<>>))
     : b \in CachePolicyHeaderBehaviors, c \in TfNamesBlocks}

TfCachePolicyQueryStringsConfigs ==
  {BlockOf([query_string_behavior |-> GoString(b), query_strings |-> c], FALSE)
     : b \in CachePolicyQueryStringBehaviors, c \in TfNamesBlocks}

TfParameters ==
  {GoMap([cookies_config |-> cc,
          enable_accept_encoding_brotli |-> GoBool(br),
          enable_accept_encoding_gzip |-> GoBool(gz),
          headers_config |-> hc,
          query_strings_config |-> qc])
     : cc \in TfCachePolicyCookiesConfigs, br \in BOOLEAN, gz \in BOOLEAN,
       hc \in TfCachePolicyHeadersConfigs, qc \in TfCachePolicyQueryStringsConfigs}

\* v[0].(map[string]interface{}) aborts when v[0] is the nil interface
PanicsOnNilBlock(tfMap, k) == HasList(tfMap, k) /\ Key(tfMap, k).l[1].t = "nil"

expandParametersPanics(tfMap) ==
  /\ tfMap.t # "nil"
  /\ \E k \in {"cookies_config", "headers_config", "query_strings_config"} :
       PanicsOnNilBlock(tfMap, k)

(***************************************************************************)
(* schema.ResourceData: what d.Set stores for a nested block and d.Get     *)
(* hands back.  A schema is a record key -> [ty, sub]; ty is the schema    *)
(* type of the key, sub the schema of a nested block.  A stored map has    *)
(* every key of its schema with the schema's Go type, zero when unset; a   *)
(* block none of whose keys was set reads back as the nil element.         *)
(***************************************************************************)
Prim(ty) == [ty |-> ty, sub |-> <<>>]

BlockSchema(sub) == [ty |-> "block", sub |-> sub]

RECURSIVE SetField(_, _)
SetField(f, v) ==
  CASE f.ty = "bool" -> GoBool(v.b)
    [] f.ty = "string" -> GoString(v.s)
    [] f.ty = "int" -> GoInt(v.n)
    [] f.ty = "float" -> GoFloat64(v.n)
    [] f.ty = "strset" -> GoSet(v.l)
    [] f.ty = "blockset" ->
         GoSet([i \in 1..Len(v.l) |->
                  GoMap([k \in DOMAIN f.sub |-> SetField(f.sub[k], Key(v.l[i], k))])])
    [] f.ty = "block" ->
         IF v.t = "nil" \/ Len(v.l) = 0 THEN GoList(<<>>)
         ELSE IF MapLen(v.l[1]) = 0 THEN GoList(<<GoNil>>)
         ELSE GoList(<<GoMap([k \in DOMAIN f.sub |-> SetField(f.sub[k], Key(v.l[1], k))])>>)

NamesSchema == [items |-> Prim("strset")]

CookiesConfigSchema ==
  [cookie_behavior |-> Prim("string"), cookies |-> BlockSchema(NamesSchema)]

HeadersConfigSchema ==
  [header_behavior |-> Prim("string"), headers |-> BlockSchema(NamesSchema)]

QueryStringsConfigSchema ==
  [query_string_behavior |-> Prim("string"), query_strings |-> BlockSchema(NamesSchema)]

ParametersSchema ==
  [cookies_config |-> BlockSchema(CookiesConfigSchema),
   enable_accept_encoding_brotli |-> Prim("bool"),
   enable_accept_encoding_gzip |-> Prim("bool"),
   headers_config |-> BlockSchema(HeadersConfigSchema),
   query_strings_config |-> BlockSchema(QueryStringsConfigSchema)]

\* v, ok := d.GetOk(k); ok && len(v.([]interface{})) > 0 && v.([]interface{})[0] != nil
GetOkBlock(v) == Len(v.l) > 0 /\ v.l[1].t # "nil"

\* v, ok := d.GetOk("comment"): the pointer set when ok
GetOkString(v) == IF v # "" THEN Some(v) ELSE None

\* d.Set of a *string / *int64 field: the zero value for a nil pointer
StringValue(p) == IF IsSome(p) THEN p[1] ELSE ""

IntValue(p) == IF IsSome(p) THEN p[1] ELSE 0

(***************************************************************************)
(* The remote CloudFront service, as far as the handlers see it: one       *)
(* object per resource, addressed by ID, versioned by an ETag that every   *)
(* successful update renews.  ETag 0 stands for the empty string.          *)
(***************************************************************************)
ErrNil == [gotype |-> "nil", notFoundText |-> FALSE]

\* CloudFront's NoSuch<Resource> error; notFoundText: its message says "not found"
ErrNoSuch(txt) == [gotype |-> "cloudfront/types.NoSuchResource", notFoundText |-> txt]

ErrPreconditionFailed == [gotype |-> "cloudfront/types.PreconditionFailed", notFoundText |-> FALSE]

ErrOther == [gotype |-> "smithy.GenericAPIError", notFoundText |-> FALSE]

\* what the finders return for a missing object
ErrNotFound == [gotype |-> "retry.NotFoundError", notFoundText |-> FALSE]

\* errs.IsAErrorMessageContains[*types.InvalidInput](err, "not found"), types
\* being the package route53domains/types
IsAErrorMessageContains(err) ==
  err.gotype = "route53domains/types.InvalidInput" /\ err.notFoundText

\* tfresource.NotFound(err)
NotFound(err) == err.gotype = "retry.NotFoundError"

NoRemote == [exists |-> FALSE, id |-> "", config |-> <<>>, etag |-> 0, live |-> None]

Call(api, input, err) == [api |-> api, input |-> input, err |-> err]

\* the outcome of a Create* call: the error and the remote afterwards
RemoteCreate(rem, newId, config, fail) ==
  IF fail \/ rem.exists THEN [err |-> ErrOther, rem |-> rem]
  ELSE [err |-> ErrNil,
        rem |-> [exists |-> TRUE, id |-> newId, config |-> config, etag |-> 1,
                 live |-> None]]

\* the error of a call that addresses object idv with IfMatch
RemoteCheck(rem, idv, ifMatch, fail, txt) ==
  IF fail THEN ErrOther
  ELSE IF ~(rem.exists /\ rem.id = idv) THEN ErrNoSuch(txt)
  ELSE IF ifMatch # rem.etag THEN ErrPreconditionFailed
  ELSE ErrNil

\* the outcome of an Update* call
RemoteUpdate(rem, idv, ifMatch, config, fail) ==
  LET err == RemoteCheck(rem, idv, ifMatch, fail, FALSE)
  IN [err |-> err,
      rem |-> IF err = ErrNil
              THEN [rem EXCEPT !.config = config, !.etag = @ + 1]
              ELSE rem]

\* the outcome of a Delete* call
RemoteDelete(rem, idv, ifMatch, fail, txt) ==
  LET err == RemoteCheck(rem, idv, ifMatch, fail, txt)
  IN [err |-> err, rem |-> IF err = ErrNil THEN NoRemote ELSE rem]

\* the error of a Get* / Describe* call; a failing call reports the object
\* missing (nf) or another error
RemoteGet(rem, idv, fail, nf) ==
  IF fail THEN (IF nf THEN ErrNoSuch(TRUE) ELSE ErrOther)
  ELSE IF ~(rem.exists /\ rem.id = idv) THEN ErrNoSuch(TRUE)
  ELSE ErrNil

(***************************************************************************)
(* Cache policy: schema defaults, request building, state refresh.         *)
(***************************************************************************)
\* Default of default_ttl
DefaultTTLDefault == 86400

\* Default of max_ttl
MaxTTLDefault == 31536000

\* the value a configuration gives to a TTL it sets
ConfiguredTTL == 60

\* the parameters blocks the handlers are run on
ParametersOf(cookieBehavior, cookies, flag, headersConfig) ==
  GoMap([cookies_config |->
           GoList(<<GoMap([cookie_behavior |-> GoString(cookieBehavior),
                           cookies |-> cookies])>>),
         enable_accept_encoding_brotli |-> GoBool(flag),
         enable_accept_encoding_gzip |-> GoBool(flag),
         headers_config |-> headersConfig,
         query_strings_config |->
           GoList(<<GoMap([query_string_behavior |-> GoString("none"),
                           query_strings |-> GoList(<<GoNil>>)])>>)])

HeadersNone ==
  GoList(<<GoMap([header_behavior |-> GoString("none"), headers |-> GoList(<<>>)])>>)

CachePolicyConfig(n, c, t, p) ==
  [name |-> n, comment |-> c, default_ttl |-> t, max_ttl |-> t, min_ttl |-> t,
   parameters_in_cache_key_and_forwarded_to_origin |-> GoList(<<p>>)]

\* what a configuration of the resource may say (None: attribute not
\* configured): the optional attributes left out, all of them set, and a
\* headers_config {} block left empty
CachePolicyConfigs ==
  {CachePolicyConfig("p1", "", None,
                     ParametersOf("none", GoList(<<>>), FALSE, HeadersNone)),
   CachePolicyConfig("p2", "c1", Some(ConfiguredTTL),
                     ParametersOf("whitelist", GoList(<<GoMap([items |-> GoSet(<<"a">>)])>>),
                                  TRUE, HeadersNone)),
   CachePolicyConfig("p1", "", None,
                     ParametersOf("none", GoList(<<>>), TRUE, GoList(<<GoNil>>)))}

CachePolicyZero ==
  [name |-> "", comment |-> "", default_ttl |-> 0, max_ttl |-> 0, min_ttl |-> 0,
   etag |-> 0, parameters_in_cache_key_and_forwarded_to_origin |-> GoList(<<>>)]

\* d.Get of every attribute once the configuration is planned over the prior state
CachePolicyPlan(c, prior) ==
  [name |-> c.name,
   comment |-> c.comment,
   default_ttl |-> IF c.default_ttl = None THEN DefaultTTLDefault ELSE c.default_ttl[1],
   max_ttl |-> IF c.max_ttl = None THEN MaxTTLDefault ELSE c.max_ttl[1],
   min_ttl |-> IF c.min_ttl = None THEN 0 ELSE c.min_ttl[1],
   etag |-> prior.etag,
   parameters_in_cache_key_and_forwarded_to_origin |->
     c.parameters_in_cache_key_and_forwarded_to_origin]

\* a create that sends a TTL only when it is not zero, as a GetOk test would
CachePolicyCreateConfigOmittingZero(a) ==
  [DefaultTTL |-> IF a.default_ttl = 0 THEN None ELSE Some(a.default_ttl),
   MaxTTL |-> IF a.max_ttl = 0 THEN None ELSE Some(a.max_ttl),
   MinTTL |-> IF a.min_ttl = 0 THEN None ELSE Some(a.min_ttl),
   Name |-> Some(a.name),
   Comment |-> GetOkString(a.comment),
   ParametersInCacheKeyAndForwardedToOrigin |->
     IF GetOkBlock(a.parameters_in_cache_key_and_forwarded_to_origin)
     THEN expandParametersInCacheKeyAndForwardedToOrigin(
            a.parameters_in_cache_key_and_forwarded_to_origin.l[1])
     ELSE None]

\* apiObject of resourceCachePolicyCreate
CachePolicyCreateConfig(a) ==
  [DefaultTTL |-> Some(a.default_ttl),
   MaxTTL |-> Some(a.max_ttl),
   MinTTL |-> Some(a.min_ttl),
   Name |-> Some(a.name),
   Comment |-> GetOkString(a.comment),
   ParametersInCacheKeyAndForwardedToOrigin |->
     IF GetOkBlock(a.parameters_in_cache_key_and_forwarded_to_origin)
     THEN expandParametersInCacheKeyAndForwardedToOrigin(
            a.parameters_in_cache_key_and_forwarded_to_origin.l[1])
     ELSE None]

\* the abort of expand inside create and update
CachePolicyBuildPanics(a) ==
  /\ GetOkBlock(a.parameters_in_cache_key_and_forwarded_to_origin)
  /\ expandParametersPanics(a.parameters_in_cache_key_and_forwarded_to_origin.l[1])

\* an update that sends the name and the comment and leaves the rest out
CachePolicyUpdateInputPartial(a, idv) ==
  [Config |->
     [DefaultTTL |-> None,
      MaxTTL |-> None,
      MinTTL |-> None,
      Name |-> Some(a.name),
      Comment |-> GetOkString(a.comment),
      ParametersInCacheKeyAndForwardedToOrigin |-> None],
   Id |-> idv,
   IfMatch |-> a.etag]

\* input of resourceCachePolicyUpdate
CachePolicyUpdateInput(a, idv) ==
  [Config |->
     [DefaultTTL |-> Some(a.default_ttl),
      MaxTTL |-> Some(a.max_ttl),
      MinTTL |-> Some(a.min_ttl),
      Name |-> Some(a.name),
      Comment |-> GetOkString(a.comment),
      ParametersInCacheKeyAndForwardedToOrigin |->
        IF GetOkBlock(a.parameters_in_cache_key_and_forwarded_to_origin)
        THEN expandParametersInCacheKeyAndForwardedToOrigin(
               a.parameters_in_cache_key_and_forwarded_to_origin.l[1])
        ELSE None],
   Id |-> idv,
   IfMatch |-> a.etag]

\* a read that sets every attribute but etag
CachePolicyRefreshKeepingETag(a, rem) ==
  [a EXCEPT
     !.comment = StringValue(rem.config.Comment),
     !.default_ttl = IntValue(rem.config.DefaultTTL),
     !.max_ttl = IntValue(rem.config.MaxTTL),
     !.min_ttl = IntValue(rem.config.MinTTL),
     !.name = StringValue(rem.config.Name),
     !.parameters_in_cache_key_and_forwarded_to_origin =
        IF rem.config.ParametersInCacheKeyAndForwardedToOrigin # None
        THEN SetField(BlockSchema(ParametersSchema),
               GoList(<<flattenParametersInCacheKeyAndForwardedToOrigin(
                          rem.config.ParametersInCacheKeyAndForwardedToOrigin)>>))
        ELSE GoList(<<>>)]

\* the d.Set calls of resourceCachePolicyRead on the fetched output
CachePolicyRefresh(a, rem) ==
  [a EXCEPT
     !.comment = StringValue(rem.config.Comment),
     !.default_ttl = IntValue(rem.config.DefaultTTL),
     !.etag = rem.etag,
     !.max_ttl = IntValue(rem.config.MaxTTL),
     !.min_ttl = IntValue(rem.config.MinTTL),
     !.name = StringValue(rem.config.Name),
     !.parameters_in_cache_key_and_forwarded_to_origin =
        IF rem.config.ParametersInCacheKeyAndForwardedToOrigin # None
        THEN SetField(BlockSchema(ParametersSchema),
               GoList(<<flattenParametersInCacheKeyAndForwardedToOrigin(
                          rem.config.ParametersInCacheKeyAndForwardedToOrigin)>>))
        ELSE GoList(<<>>)]

(***************************************************************************)
(* Origin request policy: request building, state refresh.                 *)
(***************************************************************************)
OriginRequestPolicyConfig(n, c, cookieBehavior, cookies, headersConfig) ==
  [name |-> n, comment |-> c,
   cookies_config |->
     GoList(<<GoMap([cookie_behavior |-> GoString(cookieBehavior), cookies |-> cookies])>>),
   headers_config |-> headersConfig,
   query_strings_config |->
     GoList(<<GoMap([query_string_behavior |-> GoString("none"),
                     query_strings |-> GoList(<<>>)])>>)]

\* the optional attributes left out, all of them set, and a headers_config {}
\* block left empty
OriginRequestPolicyConfigs ==
  {OriginRequestPolicyConfig("p1", "", "none", GoList(<<>>), HeadersNone),
   OriginRequestPolicyConfig("p2", "c1", "whitelist",
                             GoList(<<GoMap([items |-> GoSet(<<"a">>)])>>), HeadersNone),
   OriginRequestPolicyConfig("p1", "", "none", GoList(<<>>), GoList(<<GoNil>>))}

OriginRequestPolicyZero ==
  [name |-> "", comment |-> "", etag |-> 0, cookies_config |-> GoList(<<>>),
   headers_config |-> GoList(<<>>), query_strings_config |-> GoList(<<>>)]

OriginRequestPolicyPlan(c, prior) ==
  [name |-> c.name, comment |-> c.comment, etag |-> prior.etag,
   cookies_config |-> c.cookies_config,
   headers_config |-> c.headers_config,
   query_strings_config |-> c.query_strings_config]

\* apiObject of resourceOriginRequestPolicyCreate
OriginRequestPolicyCreateConfig(a) ==
  [Name |-> Some(a.name),
   Comment |-> GetOkString(a.comment),
   CookiesConfig |->
     IF GetOkBlock(a.cookies_config)
     THEN expandOriginRequestPolicyCookiesConfig(a.cookies_config.l[1]) ELSE None,
   HeadersConfig |->
     IF GetOkBlock(a.headers_config)
     THEN expandOriginRequestPolicyHeadersConfig(a.headers_config.l[1]) ELSE None,
   QueryStringsConfig |->
     IF GetOkBlock(a.query_strings_config)
     THEN expandOriginRequestPolicyQueryStringsConfig(a.query_strings_config.l[1])
     ELSE None]

\* input of resourceOriginRequestPolicyUpdate
OriginRequestPolicyUpdateInput(a, idv) ==
  [Config |->
     [Name |-> Some(a.name),
      Comment |-> GetOkString(a.comment),
      CookiesConfig |->
        IF GetOkBlock(a.cookies_config)
        THEN expandOriginRequestPolicyCookiesConfig(a.cookies_config.l[1]) ELSE None,
      HeadersConfig |->
        IF GetOkBlock(a.headers_config)
        THEN expandOriginRequestPolicyHeadersConfig(a.headers_config.l[1]) ELSE None,
      QueryStringsConfig |->
        IF GetOkBlock(a.query_strings_config)
        THEN expandOriginRequestPolicyQueryStringsConfig(a.query_strings_config.l[1])
        ELSE None],
   Id |-> idv,
   IfMatch |-> a.etag]

\* a read that sets the blocks the remote has and leaves the others as they are
OriginRequestPolicyRefreshKeepingAbsent(a, rem) ==
  [a EXCEPT
     !.comment = StringValue(rem.config.Comment),
     !.cookies_config =
        IF rem.config.CookiesConfig # None
        THEN SetField(BlockSchema(CookiesConfigSchema),
               GoList(<<flattenOriginRequestPolicyCookiesConfig(rem.config.CookiesConfig)>>))
        ELSE @,
     !.etag = rem.etag,
     !.headers_config =
        IF rem.config.HeadersConfig # None
        THEN SetField(BlockSchema(HeadersConfigSchema),
               GoList(<<flattenOriginRequestPolicyHeadersConfig(rem.config.HeadersConfig)>>))
        ELSE @,
     !.name = StringValue(rem.config.Name),
     !.query_strings_config =
        IF rem.config.QueryStringsConfig # None
        THEN SetField(BlockSchema(QueryStringsConfigSchema),
               GoList(<<flattenOriginRequestPolicyQueryStringsConfig(
                          rem.config.QueryStringsConfig)>>))
        ELSE @]

\* the d.Set calls of resourceOriginRequestPolicyRead on the fetched output
OriginRequestPolicyRefresh(a, rem) ==
  [a EXCEPT
     !.comment = StringValue(rem.config.Comment),
     !.cookies_config =
        IF rem.config.CookiesConfig # None
        THEN SetField(BlockSchema(CookiesConfigSchema),
               GoList(<<flattenOriginRequestPolicyCookiesConfig(rem.config.CookiesConfig)>>))
        ELSE GoList(<<>>),
     !.etag = rem.etag,
     !.headers_config =
        IF rem.config.HeadersConfig # None
        THEN SetField(BlockSchema(HeadersConfigSchema),
               GoList(<<flattenOriginRequestPolicyHeadersConfig(rem.config.HeadersConfig)>>))
        ELSE GoList(<<>>),
     !.name = StringValue(rem.config.Name),
     !.query_strings_config =
        IF rem.config.QueryStringsConfig # None
        THEN SetField(BlockSchema(QueryStringsConfigSchema),
               GoList(<<flattenOriginRequestPolicyQueryStringsConfig(
                          rem.config.QueryStringsConfig)>>))
        ELSE GoList(<<>>)]

(***************************************************************************)
(* Response headers policy: request building, state refresh.               *)
(***************************************************************************)
CorsConfigSchema ==
  [access_control_allow_credentials |-> Prim("bool"),
   access_control_allow_headers |-> BlockSchema(NamesSchema),
   access_control_allow_methods |-> BlockSchema(NamesSchema),
   access_control_allow_origins |-> BlockSchema(NamesSchema),
   access_control_expose_headers |-> BlockSchema(NamesSchema),
   access_control_max_age_sec |-> Prim("int"),
   origin_override |-> Prim("bool")]

CustomHeadersConfigSchema ==
  [items |-> [ty |-> "blockset",
              sub |-> [header |-> Prim("string"), override |-> Prim("bool"),
                       value |-> Prim("string")]]]

RemoveHeadersConfigSchema ==
  [items |-> [ty |-> "blockset", sub |-> [header |-> Prim("string")]]]

SecurityHeadersConfigSchema ==
  [content_security_policy |->
     BlockSchema([content_security_policy |-> Prim("string"), override |-> Prim("bool")]),
   content_type_options |-> BlockSchema([override |-> Prim("bool")]),
   frame_options |->
     BlockSchema([frame_option |-> Prim("string"), override |-> Prim("bool")]),
   referrer_policy |->
     BlockSchema([override |-> Prim("bool"), referrer_policy |-> Prim("string")]),
   strict_transport_security |->
     BlockSchema([access_control_max_age_sec |-> Prim("int"),
                  include_subdomains |-> Prim("bool"),
                  override |-> Prim("bool"),
                  preload |-> Prim("bool")]),
   xss_protection |->
     BlockSchema([mode_block |-> Prim("bool"), override |-> Prim("bool"),
                  protection |-> Prim("bool"), report_uri |-> Prim("string")])]

ServerTimingHeadersConfigSchema ==
  [enabled |-> Prim("bool"), sampling_rate |-> Prim("float")]

\* the value a configuration gives to an access_control_max_age_sec it sets
ConfiguredMaxAgeSec == 600

\* the value a configuration gives to sampling_rate
ConfiguredSamplingRate == 50

ItemsBlock(q) == GoList(<<GoMap([items |-> GoSet(q)])>>)

TfCorsConfig ==
  GoList(<<GoMap([access_control_allow_credentials |-> GoBool(FALSE),
                  access_control_allow_headers |-> ItemsBlock(<<"a">>),
                  access_control_allow_methods |-> ItemsBlock(<<"GET">>),
                  access_control_allow_origins |-> ItemsBlock(<<"a", "b">>),
                  access_control_expose_headers |-> GoList(<<>>),
                  access_control_max_age_sec |-> GoInt(ConfiguredMaxAgeSec),
                  origin_override |-> GoBool(TRUE)])>>)

TfCustomHeadersConfig ==
  GoList(<<GoMap([items |->
     GoSet(<<GoMap([header |-> GoString("h1"), override |-> GoBool(TRUE),
                    value |-> GoString("v1")])>>)])>>)

TfRemoveHeadersConfig ==
  GoList(<<GoMap([items |-> GoSet(<<GoMap([header |-> GoString("h2")])>>)])>>)

TfSecurityHeadersConfig ==
  GoList(<<GoMap([
    content_security_policy |-> GoList(<<>>),
    content_type_options |-> GoList(<<>>),
    frame_options |->
      GoList(<<GoMap([frame_option |-> GoString("DENY"), override |-> GoBool(TRUE)])>>),
    referrer_policy |-> GoList(<<>>),
    strict_transport_security |->
      GoList(<<GoMap([access_control_max_age_sec |-> GoInt(ConfiguredMaxAgeSec),
                      include_subdomains |-> GoBool(FALSE),
                      override |-> GoBool(TRUE),
                      preload |-> GoBool(FALSE)])>>),
    xss_protection |-> GoList(<<>>)])>>)

TfServerTimingHeadersConfig ==
  GoList(<<GoMap([enabled |-> GoBool(TRUE),
                  sampling_rate |-> GoFloat64(ConfiguredSamplingRate)])>>)

ResponseHeadersPolicyConfigOf(n, c, cors, custom, remove, security, timing) ==
  [name |-> n, comment |-> c, cors_config |-> cors, custom_headers_config |-> custom,
   remove_headers_config |-> remove, security_headers_config |-> security,
   server_timing_headers_config |-> timing]

\* server timing alone; CORS and security headers with a comment; custom and
\* removed headers
ResponseHeadersPolicyConfigs ==
  {ResponseHeadersPolicyConfigOf("p1", "", GoList(<<>>), GoList(<<>>), GoList(<<>>),
                                 GoList(<<>>), TfServerTimingHeadersConfig),
   ResponseHeadersPolicyConfigOf("p2", "c1", TfCorsConfig, GoList(<<>>), GoList(<<>>),
                                 TfSecurityHeadersConfig, GoList(<<>>)),
   ResponseHeadersPolicyConfigOf("p1", "", GoList(<<>>), TfCustomHeadersConfig,
                                 TfRemoveHeadersConfig, GoList(<<>>), GoList(<<>>))}

ResponseHeadersPolicyZero ==
  [name |-> "", comment |-> "", etag |-> 0, cors_config |-> GoList(<<>>),
   custom_headers_config |-> GoList(<<>>), remove_headers_config |-> GoList(<<>>),
   security_headers_config |-> GoList(<<>>),
   server_timing_headers_config |-> GoList(<<>>)]

\* a plan whose blocks are Optional and Computed: a block the configuration
\* leaves out keeps the value of the prior state
ResponseHeadersPolicyPlanKeepingRemoved(c, prior) ==
  LET keep(k) == IF Len(c[k].l) = 0 THEN prior[k] ELSE c[k]
  IN [name |-> c.name, comment |-> c.comment, etag |-> prior.etag,
      cors_config |-> keep("cors_config"),
      custom_headers_config |-> keep("custom_headers_config"),
      remove_headers_config |-> keep("remove_headers_config"),
      security_headers_config |-> keep("security_headers_config"),
      server_timing_headers_config |-> keep("server_timing_headers_config")]

\* d.Get of every attribute once the configuration is planned over the prior state
ResponseHeadersPolicyPlan(c, prior) ==
  [name |-> c.name, comment |-> c.comment, etag |-> prior.etag,
   cors_config |-> c.cors_config,
   custom_headers_config |-> c.custom_headers_config,
   remove_headers_config |-> c.remove_headers_config,
   security_headers_config |-> c.security_headers_config,
   server_timing_headers_config |-> c.server_timing_headers_config]

\* apiObject of resourceResponseHeadersPolicyCreate
ResponseHeadersPolicyCreateConfig(a) ==
  [Name |-> Some(a.name),
   Comment |-> GetOkString(a.comment),
   CorsConfig |->
     IF GetOkBlock(a.cors_config)
     THEN expandResponseHeadersPolicyCorsConfig(a.cors_config.l[1]) ELSE None,
   CustomHeadersConfig |->
     IF GetOkBlock(a.custom_headers_config)
     THEN expandResponseHeadersPolicyCustomHeadersConfig(a.custom_headers_config.l[1])
     ELSE None,
   RemoveHeadersConfig |->
     IF GetOkBlock(a.remove_headers_config)
     THEN expandResponseHeadersPolicyRemoveHeadersConfig(a.remove_headers_config.l[1])
     ELSE None,
   SecurityHeadersConfig |->
     IF GetOkBlock(a.security_headers_config)
     THEN expandResponseHeadersPolicySecurityHeadersConfig(a.security_headers_config.l[1])
     ELSE None,
   ServerTimingHeadersConfig |->
     IF GetOkBlock(a.server_timing_headers_config)
     THEN expandResponseHeadersPolicyServerTimingHeadersConfig(
            a.server_timing_headers_config.l[1])
     ELSE None]

\* input of resourceResponseHeadersPolicyUpdate
ResponseHeadersPolicyUpdateInput(a, idv) ==
  [Config |->
     [Name |-> Some(a.name),
      Comment |-> GetOkString(a.comment),
      CorsConfig |->
        IF GetOkBlock(a.cors_config)
        THEN expandResponseHeadersPolicyCorsConfig(a.cors_config.l[1]) ELSE None,
      CustomHeadersConfig |->
        IF GetOkBlock(a.custom_headers_config)
        THEN expandResponseHeadersPolicyCustomHeadersConfig(a.custom_headers_config.l[1])
        ELSE None,
      RemoveHeadersConfig |->
        IF GetOkBlock(a.remove_headers_config)
        THEN expandResponseHeadersPolicyRemoveHeadersConfig(a.remove_headers_config.l[1])
        ELSE None,
      SecurityHeadersConfig |->
        IF GetOkBlock(a.security_headers_config)
        THEN expandResponseHeadersPolicySecurityHeadersConfig(
               a.security_headers_config.l[1])
        ELSE None,
      ServerTimingHeadersConfig |->
        IF GetOkBlock(a.server_timing_headers_config)
        THEN expandResponseHeadersPolicyServerTimingHeadersConfig(
               a.server_timing_headers_config.l[1])
        ELSE None],
   Id |-> idv,
   IfMatch |-> a.etag]

\* the abort of expandResponseHeadersPolicySecurityHeadersConfig on a nested
\* block whose one element is nil
ResponseHeadersPolicyBuildPanics(a) ==
  /\ GetOkBlock(a.security_headers_config)
  /\ \E k \in SecurityHeadersBlocks :
       PanicsOnNilBlock(a.security_headers_config.l[1], k)

\* the d.Set calls of resourceResponseHeadersPolicyRead on the fetched output
ResponseHeadersPolicyRefresh(a, rem) ==
  [a EXCEPT
     !.comment = StringValue(rem.config.Comment),
     !.cors_config =
        IF rem.config.CorsConfig # None
        THEN SetField(BlockSchema(CorsConfigSchema),
               GoList(<<flattenResponseHeadersPolicyCorsConfig(rem.config.CorsConfig)>>))
        ELSE GoList(<<>>),
     !.custom_headers_config =
        IF rem.config.CustomHeadersConfig # None
        THEN SetField(BlockSchema(CustomHeadersConfigSchema),
               GoList(<<flattenResponseHeadersPolicyCustomHeadersConfig(
                          rem.config.CustomHeadersConfig[1])>>))
        ELSE GoList(<<>>),
     !.etag = rem.etag,
     !.name = StringValue(rem.config.Name),
     !.remove_headers_config =
        IF rem.config.RemoveHeadersConfig # None
        THEN SetField(BlockSchema(RemoveHeadersConfigSchema),
               GoList(<<flattenResponseHeadersPolicyRemoveHeadersConfig(
                          rem.config.RemoveHeadersConfig)>>))
        ELSE GoList(<<>>),
     !.security_headers_config =
        IF rem.config.SecurityHeadersConfig # None
        THEN SetField(BlockSchema(SecurityHeadersConfigSchema),
               GoList(<<flattenResponseHeadersPolicySecurityHeadersConfig(
                          rem.config.SecurityHeadersConfig)>>))
        ELSE GoList(<<>>),
     !.server_timing_headers_config =
        IF rem.config.ServerTimingHeadersConfig # None
        THEN SetField(BlockSchema(ServerTimingHeadersConfigSchema),
               GoList(<<flattenResponseHeadersPolicyServerTimingHeadersConfig(
                          rem.config.ServerTimingHeadersConfig)>>))
        ELSE GoList(<<>>)]

(***************************************************************************)
(* Public key: name generation, request building, state refresh.           *)
(***************************************************************************)
\* id.UniqueId()
UniqueId == "u1"

\* create.NewNameGenerator(...).Generate()
GenerateName(name, namePrefix) ==
  IF name # "" THEN name
  ELSE IF namePrefix # "" THEN namePrefix \o UniqueId
  ELSE "tf-" \o UniqueId

\* create.NamePrefixFromName
NamePrefixFromName(name) ==
  CASE name = "pre-" \o UniqueId -> "pre-"
    [] name = "tf-" \o UniqueId -> "tf-"
    [] OTHER -> ""

PublicKeyConfigOf(n, np, c) ==
  [name |-> n, name_prefix |-> np, encoded_key |-> "pem1", comment |-> c]

\* a named key, the same with a comment, and a key named from a prefix
PublicKeyConfigs ==
  {PublicKeyConfigOf("k1", "", ""), PublicKeyConfigOf("k1", "", "c1"),
   PublicKeyConfigOf("", "pre-", "")}

PublicKeyZero ==
  [caller_reference |-> "", comment |-> "", encoded_key |-> "", etag |-> 0,
   name |-> "", name_prefix |-> ""]

\* name and name_prefix are Optional and Computed: left out of the
\* configuration, they keep the value of the prior state
PublicKeyPlan(c, prior) ==
  [caller_reference |-> prior.caller_reference,
   comment |-> c.comment,
   encoded_key |-> c.encoded_key,
   etag |-> prior.etag,
   name |-> IF c.name # "" THEN c.name ELSE prior.name,
   name_prefix |-> IF c.name_prefix # "" THEN c.name_prefix ELSE prior.name_prefix]

\* encoded_key, name and name_prefix are ForceNew
PublicKeySameForceNew(a, prior) ==
  /\ a.encoded_key = prior.encoded_key
  /\ a.name = prior.name
  /\ a.name_prefix = prior.name_prefix

\* input.PublicKeyConfig of resourcePublicKeyCreate
PublicKeyCreateConfig(a) ==
  [EncodedKey |-> Some(a.encoded_key),
   Name |-> Some(GenerateName(a.name, a.name_prefix)),
   CallerReference |->
     IF a.caller_reference # "" THEN Some(a.caller_reference) ELSE Some(UniqueId),
   Comment |-> GetOkString(a.comment)]

\* input of resourcePublicKeyUpdate
PublicKeyUpdateInput(a, idv) ==
  [Config |->
     [EncodedKey |-> Some(a.encoded_key),
      Name |-> Some(a.name),
      CallerReference |->
        IF a.caller_reference # "" THEN Some(a.caller_reference) ELSE Some(UniqueId),
      Comment |-> GetOkString(a.comment)],
   Id |-> idv,
   IfMatch |-> a.etag]

\* the d.Set calls of resourcePublicKeyRead on the fetched output
PublicKeyRefresh(a, rem) ==
  [a EXCEPT
     !.caller_reference = StringValue(rem.config.CallerReference),
     !.comment = StringValue(rem.config.Comment),
     !.encoded_key = StringValue(rem.config.EncodedKey),
     !.etag = rem.etag,
     !.name = StringValue(rem.config.Name),
     !.name_prefix = NamePrefixFromName(StringValue(rem.config.Name))]

\* resourcePublicKeyRead hands findPublicKeyByID the *cloudfront.Client where
\* the function asserts meta.(*conns.AWSClient): the assertion aborts
MetaIsAWSClient == FALSE

(***************************************************************************)
(* Function: request building, state refresh.  The resource ID is the      *)
(* function's name; the remote keeps a DEVELOPMENT stage (config, etag)    *)
(* and, once published, a LIVE stage (live).                               *)
(***************************************************************************)
\* Default of publish
PublishDefault == TRUE

FunctionConfigOf(code, c, pub) ==
  [name |-> "fn1", code |-> code, comment |-> c, runtime |-> "cloudfront-js-1.0",
   publish |-> pub]

\* a published function, the same with other code and a comment, and the
\* first one with publish = false
FunctionConfigs ==
  {FunctionConfigOf("code1", "", None), FunctionConfigOf("code2", "c1", None),
   FunctionConfigOf("code1", "", Some(FALSE))}

FunctionZero ==
  [arn |-> "", code |-> "", comment |-> "", etag |-> 0, live_stage_etag |-> 0,
   name |-> "", publish |-> FALSE, runtime |-> "", status |-> ""]

FunctionPlan(c, prior) ==
  [arn |-> prior.arn, code |-> c.code, comment |-> c.comment, etag |-> prior.etag,
   live_stage_etag |-> prior.live_stage_etag, name |-> c.name,
   publish |-> IF c.publish = None THEN PublishDefault ELSE c.publish[1],
   runtime |-> c.runtime, status |-> prior.status]

\* name is ForceNew
FunctionSameForceNew(a, prior) == a.name = prior.name

\* a create that sends the comment only when d.GetOk finds one
FunctionCreateConfigCommentIfSet(a) ==
  [Code |-> a.code, Comment |-> GetOkString(a.comment), Runtime |-> a.runtime]

\* FunctionCode and FunctionConfig of resourceFunctionCreate
FunctionCreateConfig(a) ==
  [Code |-> a.code, Comment |-> Some(a.comment), Runtime |-> a.runtime]

\* input of UpdateFunction in resourceFunctionUpdate
FunctionUpdateInput(a, idv) ==
  [Config |-> [Code |-> a.code, Comment |-> Some(a.comment), Runtime |-> a.runtime],
   Id |-> idv,
   IfMatch |-> a.etag]

\* an update handler without the d.HasChanges test
FunctionHasChangesAlways(a, prior) == TRUE

\* d.HasChanges("code", "comment", "runtime")
FunctionHasChanges(a, prior) ==
  a.code # prior.code \/ a.comment # prior.comment \/ a.runtime # prior.runtime

\* FunctionSummary.FunctionMetadata.FunctionARN and FunctionSummary.Status
FunctionARN(rem) == "arn:" \o rem.id

FunctionStatus(rem) == IF rem.live = None THEN "UNPUBLISHED" ELSE "UNASSOCIATED"

\* the d.Set calls of resourceFunctionRead on the DEVELOPMENT stage summary
FunctionRefreshSummary(a, rem) ==
  [a EXCEPT !.arn = FunctionARN(rem),
            !.comment = StringValue(rem.config.Comment),
            !.etag = rem.etag,
            !.name = rem.id,
            !.runtime = rem.config.Runtime,
            !.status = FunctionStatus(rem)]

\* d.Set("code", ...) on the GetFunction output
FunctionRefreshCode(a, rem) == [a EXCEPT !.code = rem.config.Code]

\* a read that takes live_stage_etag from the DEVELOPMENT stage
FunctionRefreshLiveFromDevelopment(a, rem, found) ==
  [a EXCEPT !.live_stage_etag = IF found THEN rem.etag ELSE 0]

\* d.Set("live_stage_etag", ...): "" when the LIVE stage is not found
FunctionRefreshLive(a, rem, found) ==
  [a EXCEPT !.live_stage_etag = IF found THEN rem.live[1] ELSE 0]

\* the outcome of PublishFunction: the LIVE stage holds the published version
RemotePublish(rem, idv, ifMatch, fail) ==
  LET err == RemoteCheck(rem, idv, ifMatch, fail, FALSE)
  IN [err |-> err,
      rem |-> IF err = ErrNil THEN [rem EXCEPT !.live = Some(rem.etag)] ELSE rem]

(***************************************************************************)
(* Monitoring subscription: request building, state refresh.  The resource *)
(* ID is the distribution's ID.                                            *)
(***************************************************************************)
MonitoringSubscriptionSchema ==
  [realtime_metrics_subscription_config |->
     BlockSchema([realtime_metrics_subscription_status |-> Prim("string")])]

MonitoringSubscriptionConfigOf(status) ==
  [distribution_id |-> "ID1",
   monitoring_subscription |->
     GoList(<<GoMap([realtime_metrics_subscription_config |->
        GoList(<<GoMap([realtime_metrics_subscription_status |->
                          GoString(status)])>>)])>>)]

MonitoringSubscriptionConfigs ==
  {MonitoringSubscriptionConfigOf("Enabled"), MonitoringSubscriptionConfigOf("Disabled")}

MonitoringSubscriptionZero ==
  [distribution_id |-> "", monitoring_subscription |-> GoList(<<>>)]

MonitoringSubscriptionPlan(c, prior) ==
  [distribution_id |-> c.distribution_id,
   monitoring_subscription |-> c.monitoring_subscription]

\* distribution_id is ForceNew
MonitoringSubscriptionSameForceNew(a, prior) ==
  a.distribution_id = prior.distribution_id

\* input.MonitoringSubscription of resourceMonitoringSubscriptionCreate
MonitoringSubscriptionCreateConfig(a) ==
  [MonitoringSubscription |->
     IF GetOkBlock(a.monitoring_subscription)
     THEN expandMonitoringSubscription(a.monitoring_subscription.l[1]) ELSE None]

\* the abort of expandMonitoringSubscription on a nested block whose one
\* element is nil
MonitoringSubscriptionBuildPanics(a) ==
  /\ GetOkBlock(a.monitoring_subscription)
  /\ PanicsOnNilBlock(a.monitoring_subscription.l[1], "realtime_metrics_subscription_config")

\* the d.Set calls of resourceMonitoringSubscriptionRead on the fetched output
MonitoringSubscriptionRefresh(a, rem) ==
  [a EXCEPT
     !.monitoring_subscription =
        IF rem.config.MonitoringSubscription # None
        THEN SetField(BlockSchema(MonitoringSubscriptionSchema),
               GoList(<<flattenMonitoringSubscription(rem.config.MonitoringSubscription)>>))
        ELSE GoList(<<>>)]

\* the outcome of CreateMonitoringSubscription: the distribution's
\* subscription is set, whether or not it had one
RemotePut(rem, idv, config, fail) ==
  IF fail THEN [err |-> ErrOther, rem |-> rem]
  ELSE [err |-> ErrNil,
        rem |-> [exists |-> TRUE, id |-> idv, config |-> config, etag |-> 1,
                 live |-> None]]

(***************************************************************************)
(* State.                                                                  *)
(*   conv    the conversion chain of the converter specification           *)
(*   kind    the resource type the handlers below belong to                *)
(*   id      d.Id() when the last handler ended                            *)
(*   attrs   the attributes d holds when the last handler ended            *)
(*   isNew   d.IsNewResource() during the last handler                     *)
(*   remote  the object the CloudFront service holds                       *)
(*   calls   the remote calls of the last handler invocation, in order     *)
(*   op      the last step: the handler invoked, or "env" for a change     *)
(*           made by another party                                         *)
(*   result  how it ended: "ok" (no error diagnostics), "error", "panic"   *)
(*   entry   d as the last handler received it (ID, planned attributes),  *)
(*           prior, the attributes of the state stored before it, and      *)
(*           config, the configuration it was planned from (<<>> for a     *)
(*           handler that is given none), and left, d as the handler left  *)
(*           it, before Terraform stores or drops it                       *)
(* A handler that aborts leaves nothing behind: id and attrs keep the      *)
(* state Terraform had stored before it.                                   *)
(***************************************************************************)
VARIABLES conv, kind, id, attrs, isNew, remote, calls, op, result, entry

vars == <<conv, kind, id, attrs, isNew, remote, calls, op, result, entry>>

handlerVars == <<kind, id, attrs, isNew, remote, calls, op, result, entry>>

Kinds ==
  {"cache_policy", "origin_request_policy", "response_headers_policy", "public_key",
   "function", "monitoring_subscription"}

\* the kinds whose create and update handlers have the same shape: build the
\* configuration, one remote call, read
PlainKinds ==
  {"cache_policy", "origin_request_policy", "response_headers_policy", "public_key"}

\* the identifier the service assigns on create
AssignedId == "ID1"

ImportIds(k) == IF k = "function" THEN {"fn1", "fn2"} ELSE {"ID1", "ID2"}

\* the call of a handler that fails, if any
FailSites(k) ==
  IF k = "function" THEN {"none", "mutate", "publish", "find", "get", "findLive"}
  ELSE {"none", "mutate", "find"}

Configs(k) ==
  CASE k = "cache_policy" -> CachePolicyConfigs
    [] k = "origin_request_policy" -> OriginRequestPolicyConfigs
    [] k = "response_headers_policy" -> ResponseHeadersPolicyConfigs
    [] k = "public_key" -> PublicKeyConfigs
    [] k = "function" -> FunctionConfigs
    [] k = "monitoring_subscription" -> MonitoringSubscriptionConfigs

Zero(k) ==
  CASE k = "cache_policy" -> CachePolicyZero
    [] k = "origin_request_policy" -> OriginRequestPolicyZero
    [] k = "response_headers_policy" -> ResponseHeadersPolicyZero
    [] k = "public_key" -> PublicKeyZero
    [] k = "function" -> FunctionZero
    [] k = "monitoring_subscription" -> MonitoringSubscriptionZero

Plan(k, c, prior) ==
  CASE k = "cache_policy" -> CachePolicyPlan(c, prior)
    [] k = "origin_request_policy" -> OriginRequestPolicyPlan(c, prior)
    [] k = "response_headers_policy" -> ResponseHeadersPolicyPlan(c, prior)
    [] k = "public_key" -> PublicKeyPlan(c, prior)
    [] k = "function" -> FunctionPlan(c, prior)
    [] k = "monitoring_subscription" -> MonitoringSubscriptionPlan(c, prior)

\* a change of a ForceNew attribute replaces the resource instead of updating it
SameForceNew(k, a, prior) ==
  CASE k = "public_key" -> PublicKeySameForceNew(a, prior)
    [] k = "function" -> FunctionSameForceNew(a, prior)
    [] k = "monitoring_subscription" -> MonitoringSubscriptionSameForceNew(a, prior)
    [] OTHER -> TRUE

BuildPanics(k, a) ==
  CASE k = "cache_policy" -> CachePolicyBuildPanics(a)
    [] k = "response_headers_policy" -> ResponseHeadersPolicyBuildPanics(a)
    [] k = "monitoring_subscription" -> MonitoringSubscriptionBuildPanics(a)
    [] OTHER -> FALSE

CreateConfig(k, a) ==
  CASE k = "cache_policy" -> CachePolicyCreateConfig(a)
    [] k = "origin_request_policy" -> OriginRequestPolicyCreateConfig(a)
    [] k = "response_headers_policy" -> ResponseHeadersPolicyCreateConfig(a)
    [] k = "public_key" -> PublicKeyCreateConfig(a)
    [] k = "function" -> FunctionCreateConfig(a)
    [] k = "monitoring_subscription" -> MonitoringSubscriptionCreateConfig(a)

UpdateInput(k, a, idv) ==
  CASE k = "cache_policy" -> CachePolicyUpdateInput(a, idv)
    [] k = "origin_request_policy" -> OriginRequestPolicyUpdateInput(a, idv)
    [] k = "response_headers_policy" -> ResponseHeadersPolicyUpdateInput(a, idv)
    [] k = "public_key" -> PublicKeyUpdateInput(a, idv)

\* the attributes after a read that met no error
Refresh(k, a, rem) ==
  CASE k = "cache_policy" -> CachePolicyRefresh(a, rem)
    [] k = "origin_request_policy" -> OriginRequestPolicyRefresh(a, rem)
    [] k = "response_headers_policy" -> ResponseHeadersPolicyRefresh(a, rem)
    [] k = "public_key" -> PublicKeyRefresh(a, rem)
    [] k = "function" ->
         FunctionRefreshLive(FunctionRefreshCode(FunctionRefreshSummary(a, rem), rem),
                             rem, rem.live # None)
    [] k = "monitoring_subscription" -> MonitoringSubscriptionRefresh(a, rem)

Noun(k) ==
  CASE k = "cache_policy" -> "CachePolicy"
    [] k = "origin_request_policy" -> "OriginRequestPolicy"
    [] k = "response_headers_policy" -> "ResponseHeadersPolicy"
    [] k = "public_key" -> "PublicKey"
    [] k = "function" -> "Function"
    [] k = "monitoring_subscription" -> "MonitoringSubscription"

ApiName(k, verb) == <<verb, Noun(k)>>

\* the input of the Delete* call
DeleteInput(k, idv, a) ==
  CASE k = "monitoring_subscription" -> [DistributionId |-> idv]
    [] k = "function" -> [Name |-> idv, IfMatch |-> a.etag]
    [] OTHER -> [Id |-> idv, IfMatch |-> a.etag]

\* Find<Resource>ByID, FindFunctionByNameAndStage,
\* FindMonitoringSubscriptionByDistributionID: a missing object becomes a
\* retry.NotFoundError
Finder(err) == IF err.gotype = ErrNoSuch(TRUE).gotype THEN ErrNotFound ELSE err

\* findPublicKeyByID, past its type assertion
findPublicKeyByID(err) == IF IsAErrorMessageContains(err) THEN ErrNotFound ELSE err

\* a function read that sets its attributes only once every fetch has
\* succeeded
FunctionReadOpAllOrNothing(idv, a, new, rem, fail, nf) ==
  LET raw1 == RemoteGet(rem, idv, fail = "find", nf)
      err1 == Finder(raw1)
      c1 == Call(<<"Describe", "Function">>, [Name |-> idv, Stage |-> "DEVELOPMENT"], raw1)
      err2 == IF fail = "get" THEN ErrOther ELSE ErrNil
      c2 == Call(<<"Get", "Function">>, [Name |-> idv, Stage |-> "DEVELOPMENT"], err2)
      a2 == FunctionRefreshCode(FunctionRefreshSummary(a, rem), rem)
      raw3 == IF fail = "findLive" THEN (IF nf THEN ErrNoSuch(TRUE) ELSE ErrOther)
              ELSE IF rem.live = None THEN ErrNoSuch(TRUE) ELSE ErrNil
      err3 == Finder(raw3)
      c3 == Call(<<"Describe", "Function">>, [Name |-> idv, Stage |-> "LIVE"], raw3)
  IN IF ~new /\ NotFound(err1)
     THEN [id |-> "", attrs |-> a, result |-> "ok", calls |-> <<c1>>]
     ELSE IF err1 # ErrNil
     THEN [id |-> idv, attrs |-> a, result |-> "error", calls |-> <<c1>>]
     ELSE IF err2 # ErrNil
     THEN [id |-> idv, attrs |-> a, result |-> "error", calls |-> <<c1, c2>>]
     ELSE IF NotFound(err3)
     THEN [id |-> idv, attrs |-> FunctionRefreshLive(a2, rem, FALSE), result |-> "ok",
           calls |-> <<c1, c2, c3>>]
     ELSE IF err3 # ErrNil
     THEN [id |-> idv, attrs |-> a, result |-> "error", calls |-> <<c1, c2, c3>>]
     ELSE [id |-> idv, attrs |-> FunctionRefreshLive(a2, rem, TRUE), result |-> "ok",
           calls |-> <<c1, c2, c3>>]

\* resourceFunctionRead on d = (idv, a)
FunctionReadOp(idv, a, new, rem, fail, nf) ==
  LET raw1 == RemoteGet(rem, idv, fail = "find", nf)
      err1 == Finder(raw1)
      c1 == Call(<<"Describe", "Function">>, [Name |-> idv, Stage |-> "DEVELOPMENT"], raw1)
      a1 == FunctionRefreshSummary(a, rem)
      err2 == IF fail = "get" THEN ErrOther ELSE ErrNil
      c2 == Call(<<"Get", "Function">>, [Name |-> idv, Stage |-> "DEVELOPMENT"], err2)
      a2 == FunctionRefreshCode(a1, rem)
      raw3 == IF fail = "findLive" THEN (IF nf THEN ErrNoSuch(TRUE) ELSE ErrOther)
              ELSE IF rem.live = None THEN ErrNoSuch(TRUE) ELSE ErrNil
      err3 == Finder(raw3)
      c3 == Call(<<"Describe", "Function">>, [Name |-> idv, Stage |-> "LIVE"], raw3)
  IN IF ~new /\ NotFound(err1)
     THEN [id |-> "", attrs |-> a, result |-> "ok", calls |-> <<c1>>]
     ELSE IF err1 # ErrNil
     THEN [id |-> idv, attrs |-> a, result |-> "error", calls |-> <<c1>>]
     ELSE IF err2 # ErrNil
     THEN [id |-> idv, attrs |-> a1, result |-> "error", calls |-> <<c1, c2>>]
     ELSE IF NotFound(err3)
     THEN [id |-> idv, attrs |-> FunctionRefreshLive(a2, rem, FALSE), result |-> "ok",
           calls |-> <<c1, c2, c3>>]
     ELSE IF err3 # ErrNil
     THEN [id |-> idv, attrs |-> a2, result |-> "error", calls |-> <<c1, c2, c3>>]
     ELSE [id |-> idv, attrs |-> FunctionRefreshLive(a2, rem, TRUE), result |-> "ok",
           calls |-> <<c1, c2, c3>>]

\* a read handler that takes every not-found for a resource deleted outside
\* Terraform, newly created or not
ReadOpIgnoringIsNew(k, idv, a, new, rem, fail, nf) ==
  IF k = "function" THEN FunctionReadOp(idv, a, FALSE, rem, fail, nf)
  ELSE IF k = "public_key" /\ ~MetaIsAWSClient
  THEN [id |-> idv, attrs |-> a, result |-> "panic", calls |-> <<>>]
  ELSE
    LET raw == RemoteGet(rem, idv, fail = "find", nf)
        err == IF k = "public_key" THEN findPublicKeyByID(raw) ELSE Finder(raw)
        call == Call(ApiName(k, "Get"), [Id |-> idv], raw)
    IN IF NotFound(err)
       THEN [id |-> "", attrs |-> a, result |-> "ok", calls |-> <<call>>]
       ELSE IF err # ErrNil
       THEN [id |-> idv, attrs |-> a, result |-> "error", calls |-> <<call>>]
       ELSE [id |-> idv, attrs |-> Refresh(k, a, rem), result |-> "ok",
             calls |-> <<call>>]

\* the read handler on d = (idv, a): what d holds at its end, how it ended
\* and the calls it made
ReadOp(k, idv, a, new, rem, fail, nf) ==
  IF k = "function" THEN FunctionReadOp(idv, a, new, rem, fail, nf)
  ELSE IF k = "public_key" /\ ~MetaIsAWSClient
  THEN [id |-> idv, attrs |-> a, result |-> "panic", calls |-> <<>>]
  ELSE
    LET raw == RemoteGet(rem, idv, fail = "find", nf)
        err == IF k = "public_key" THEN findPublicKeyByID(raw) ELSE Finder(raw)
        call == Call(ApiName(k, "Get"), [Id |-> idv], raw)
    IN IF ~new /\ NotFound(err)
       THEN [id |-> "", attrs |-> a, result |-> "ok", calls |-> <<call>>]
       ELSE IF err # ErrNil
       THEN [id |-> idv, attrs |-> a, result |-> "error", calls |-> <<call>>]
       ELSE [id |-> idv, attrs |-> Refresh(k, a, rem), result |-> "ok",
             calls |-> <<call>>]

\* the end of a handler invocation
Finish(o, ent, new, idv, a, res, cs, rem) ==
  /\ op' = o
  /\ entry' = [id |-> ent.id, attrs |-> ent.attrs, prior |-> ent.prior,
               config |-> ent.config, left |-> [id |-> idv, attrs |-> a]]
  /\ isNew' = new
  /\ id' = IF res = "panic" THEN id ELSE idv
  /\ attrs' = IF res = "panic" THEN attrs ELSE IF idv = "" THEN Zero(kind) ELSE a
  /\ result' = res
  /\ calls' = cs
  /\ remote' = rem
  /\ UNCHANGED <<kind, conv>>

\* resourceCachePolicyCreate, resourceOriginRequestPolicyCreate,
\* resourceResponseHeadersPolicyCreate, resourcePublicKeyCreate
Create(k) ==
  /\ kind = k
  /\ id = ""
  /\ \E c \in Configs(k), fail \in FailSites(k), nf \in BOOLEAN :
       LET a == Plan(k, c, Zero(k))
           ent == [id |-> "", attrs |-> a, prior |-> attrs, config |-> c]
           config == CreateConfig(k, a)
           r == RemoteCreate(remote, AssignedId, config, fail = "mutate")
           c1 == Call(ApiName(k, "Create"), [Config |-> config], r.err)
           rd == ReadOp(k, r.rem.id, a, TRUE, r.rem, fail, nf)
       IN IF BuildPanics(k, a)
          THEN Finish("create", ent, TRUE, "", a, "panic", <<>>, remote)
          ELSE IF r.err # ErrNil
          THEN Finish("create", ent, TRUE, "", a, "error", <<c1>>, remote)
          ELSE Finish("create", ent, TRUE, rd.id, rd.attrs, rd.result,
                      <<c1>> \o rd.calls, r.rem)

\* resourceFunctionCreate
FunctionCreate ==
  /\ kind = "function"
  /\ id = ""
  /\ \E c \in FunctionConfigs, fail \in FailSites("function"), nf \in BOOLEAN :
       LET a == FunctionPlan(c, FunctionZero)
           ent == [id |-> "", attrs |-> a, prior |-> attrs, config |-> c]
           config == FunctionCreateConfig(a)
           r == RemoteCreate(remote, a.name, config, fail = "mutate")
           c1 == Call(<<"Create", "Function">>, [Config |-> config, Name |-> a.name], r.err)
           idv == r.rem.id
           p == RemotePublish(r.rem, idv, r.rem.etag, fail = "publish")
           c2 == Call(<<"Publish", "Function">>,
                      [Name |-> idv, IfMatch |-> r.rem.etag], p.err)
           rem2 == IF a.publish THEN p.rem ELSE r.rem
           cs == IF a.publish THEN <<c1, c2>> ELSE <<c1>>
           rd == FunctionReadOp(idv, a, TRUE, rem2, fail, nf)
       IN IF r.err # ErrNil
          THEN Finish("create", ent, TRUE, "", a, "error", <<c1>>, remote)
          ELSE IF a.publish /\ p.err # ErrNil
          THEN Finish("create", ent, TRUE, idv, a, "error", cs, r.rem)
          ELSE Finish("create", ent, TRUE, rd.id, rd.attrs, rd.result,
                      cs \o rd.calls, rem2)

\* resourceMonitoringSubscriptionCreate, registered as the create handler
\* (o = "create") and as the update handler (o = "update")
MonitoringSubscriptionCreate(o) ==
  /\ kind = "monitoring_subscription"
  /\ o = "create" => id = ""
  /\ o = "update" => id # ""
  /\ \E c \in MonitoringSubscriptionConfigs, fail \in FailSites(kind), nf \in BOOLEAN :
       LET a == MonitoringSubscriptionPlan(c, attrs)
           ent == [id |-> id, attrs |-> a, prior |-> attrs, config |-> c]
           new == o = "create"
           config == MonitoringSubscriptionCreateConfig(a)
           r == RemotePut(remote, a.distribution_id, config, fail = "mutate")
           c1 == Call(ApiName(kind, "Create"),
                      [DistributionId |-> a.distribution_id, Config |-> config], r.err)
           rd == ReadOp(kind, a.distribution_id, a, new, r.rem, fail, nf)
       IN /\ o = "update" =>
               a # attrs /\ MonitoringSubscriptionSameForceNew(a, attrs)
          /\ IF MonitoringSubscriptionBuildPanics(a)
             THEN Finish(o, ent, new, id, a, "panic", <<>>, remote)
             ELSE IF r.err # ErrNil
             THEN Finish(o, ent, new, id, a, "error", <<c1>>, remote)
             ELSE Finish(o, ent, new, rd.id, rd.attrs, rd.result,
                         <<c1>> \o rd.calls, r.rem)

\* the read handler of every kind, invoked by a refresh
Read ==
  /\ id # ""
  /\ \E fail \in FailSites(kind), nf \in BOOLEAN :
       LET rd == ReadOp(kind, id, attrs, FALSE, remote, fail, nf)
       IN Finish("read", [id |-> id, attrs |-> attrs, prior |-> attrs, config |-> <<>>], FALSE, rd.id, rd.attrs,
                 rd.result, rd.calls, remote)

\* an update handler that refreshes the state even when its request failed
UpdateReadingAfterFailure(k) ==
  /\ kind = k
  /\ id # ""
  /\ remote.etag < MaxETag
  /\ \E c \in Configs(k), fail \in FailSites(k), nf \in BOOLEAN :
       LET a == Plan(k, c, attrs)
           ent == [id |-> id, attrs |-> a, prior |-> attrs, config |-> c]
           input == UpdateInput(k, a, id)
           r == RemoteUpdate(remote, input.Id, input.IfMatch, input.Config,
                             fail = "mutate")
           c1 == Call(ApiName(k, "Update"), input, r.err)
           rd == ReadOp(k, id, a, FALSE, r.rem, fail, nf)
       IN /\ a # attrs
          /\ SameForceNew(k, a, attrs)
          /\ IF BuildPanics(k, a)
             THEN Finish("update", ent, FALSE, id, a, "panic", <<>>, remote)
             ELSE IF r.err # ErrNil
             THEN Finish("update", ent, FALSE, rd.id, rd.attrs,
                         IF rd.result = "panic" THEN "panic" ELSE "error",
                         <<c1>> \o rd.calls, r.rem)
             ELSE Finish("update", ent, FALSE, rd.id, rd.attrs, rd.result,
                         <<c1>> \o rd.calls, r.rem)

\* resourceCachePolicyUpdate, resourceOriginRequestPolicyUpdate,
\* resourceResponseHeadersPolicyUpdate, resourcePublicKeyUpdate: Terraform
\* invokes them when the configuration differs from the state
Update(k) ==
  /\ kind = k
  /\ id # ""
  /\ remote.etag < MaxETag
  /\ \E c \in Configs(k), fail \in FailSites(k), nf \in BOOLEAN :
       LET a == Plan(k, c, attrs)
           ent == [id |-> id, attrs |-> a, prior |-> attrs, config |-> c]
           input == UpdateInput(k, a, id)
           r == RemoteUpdate(remote, input.Id, input.IfMatch, input.Config,
                             fail = "mutate")
           c1 == Call(ApiName(k, "Update"), input, r.err)
           rd == ReadOp(k, id, a, FALSE, r.rem, fail, nf)
       IN /\ a # attrs
          /\ SameForceNew(k, a, attrs)
          /\ IF BuildPanics(k, a)
             THEN Finish("update", ent, FALSE, id, a, "panic", <<>>, remote)
             ELSE IF r.err # ErrNil
             THEN Finish("update", ent, FALSE, id, a, "error", <<c1>>, remote)
             ELSE Finish("update", ent, FALSE, rd.id, rd.attrs, rd.result,
                         <<c1>> \o rd.calls, r.rem)

\* a function update that publishes with the etag held in state even after
\* UpdateFunction returned a new one
FunctionUpdatePublishingStateETag ==
  /\ kind = "function"
  /\ id # ""
  /\ remote.etag < MaxETag
  /\ \E c \in FunctionConfigs, fail \in FailSites("function"), nf \in BOOLEAN :
       LET a == FunctionPlan(c, attrs)
           ent == [id |-> id, attrs |-> a, prior |-> attrs, config |-> c]
           changed == FunctionHasChanges(a, attrs)
           input == FunctionUpdateInput(a, id)
           u == RemoteUpdate(remote, input.Id, input.IfMatch, input.Config,
                             fail = "mutate")
           c1 == Call(<<"Update", "Function">>, input, u.err)
           rem1 == IF changed THEN u.rem ELSE remote
           etag == a.etag
           p == RemotePublish(rem1, id, etag, fail = "publish")
           c2 == Call(<<"Publish", "Function">>, [Name |-> id, IfMatch |-> etag], p.err)
           rem2 == IF a.publish THEN p.rem ELSE rem1
           cs == (IF changed THEN <<c1>> ELSE <<>>) \o (IF a.publish THEN <<c2>> ELSE <<>>)
           rd == FunctionReadOp(id, a, FALSE, rem2, fail, nf)
       IN /\ a # attrs
          /\ FunctionSameForceNew(a, attrs)
          /\ IF changed /\ u.err # ErrNil
             THEN Finish("update", ent, FALSE, id, a, "error", <<c1>>, remote)
             ELSE IF a.publish /\ p.err # ErrNil
             THEN Finish("update", ent, FALSE, id, a, "error", cs, rem1)
             ELSE Finish("update", ent, FALSE, rd.id, rd.attrs, rd.result,
                         cs \o rd.calls, rem2)

\* resourceFunctionUpdate
FunctionUpdate ==
  /\ kind = "function"
  /\ id # ""
  /\ remote.etag < MaxETag
  /\ \E c \in FunctionConfigs, fail \in FailSites("function"), nf \in BOOLEAN :
       LET a == FunctionPlan(c, attrs)
           ent == [id |-> id, attrs |-> a, prior |-> attrs, config |-> c]
           changed == FunctionHasChanges(a, attrs)
           input == FunctionUpdateInput(a, id)
           u == RemoteUpdate(remote, input.Id, input.IfMatch, input.Config,
                             fail = "mutate")
           c1 == Call(<<"Update", "Function">>, input, u.err)
           rem1 == IF changed THEN u.rem ELSE remote
           etag == IF changed THEN u.rem.etag ELSE a.etag
           p == RemotePublish(rem1, id, etag, fail = "publish")
           c2 == Call(<<"Publish", "Function">>, [Name |-> id, IfMatch |-> etag], p.err)
           rem2 == IF a.publish THEN p.rem ELSE rem1
           cs == (IF changed THEN <<c1>> ELSE <<>>) \o (IF a.publish THEN <<c2>> ELSE <<>>)
           rd == FunctionReadOp(id, a, FALSE, rem2, fail, nf)
       IN /\ a # attrs
          /\ FunctionSameForceNew(a, attrs)
          /\ IF changed /\ u.err # ErrNil
             THEN Finish("update", ent, FALSE, id, a, "error", <<c1>>, remote)
             ELSE IF a.publish /\ p.err # ErrNil
             THEN Finish("update", ent, FALSE, id, a, "error", cs, rem1)
             ELSE Finish("update", ent, FALSE, rd.id, rd.attrs, rd.result,
                         cs \o rd.calls, rem2)

\* a delete handler that issues the call again when it fails
DeleteRetrying ==
  /\ id # ""
  /\ \E fail \in {"none", "mutate"}, txt \in BOOLEAN :
       LET input == DeleteInput(kind, id, attrs)
           ifMatch == IF kind = "monitoring_subscription" THEN remote.etag
                      ELSE attrs.etag
           r == RemoteDelete(remote, id, ifMatch, fail = "mutate", txt)
           c1 == Call(ApiName(kind, "Delete"), input, r.err)
           ent == [id |-> id, attrs |-> attrs, prior |-> attrs, config |-> <<>>]
       IN IF r.err # ErrNil
          THEN Finish("delete", ent, FALSE, id, attrs, "error", <<c1, c1>>, r.rem)
          ELSE Finish("delete", ent, FALSE, "", attrs, "ok", <<c1>>, r.rem)

\* the delete handler of every kind; Terraform drops the resource when it
\* reports no error
Delete ==
  /\ id # ""
  /\ \E fail \in {"none", "mutate"}, txt \in BOOLEAN :
       LET input == DeleteInput(kind, id, attrs)
           ifMatch == IF kind = "monitoring_subscription" THEN remote.etag
                      ELSE attrs.etag
           r == RemoteDelete(remote, id, ifMatch, fail = "mutate", txt)
           c1 == Call(ApiName(kind, "Delete"), input, r.err)
           ent == [id |-> id, attrs |-> attrs, prior |-> attrs, config |-> <<>>]
       IN IF IsAErrorMessageContains(r.err)
          THEN Finish("delete", ent, FALSE, "", attrs, "ok", <<c1>>, r.rem)
          ELSE IF r.err # ErrNil
          THEN Finish("delete", ent, FALSE, id, attrs, "error", <<c1>>, r.rem)
          ELSE Finish("delete", ent, FALSE, "", attrs, "ok", <<c1>>, r.rem)

\* an import that passes the ID through for every kind and sets no attribute
ImportPassthroughOnly ==
  /\ id = ""
  /\ \E i \in ImportIds(kind) :
       Finish("import", [id |-> i, attrs |-> Zero(kind), prior |-> attrs, config |-> <<>>],
              FALSE, i, Zero(kind), "ok", <<>>, remote)

\* schema.ImportStatePassthroughContext: the given ID becomes d.Id();
\* resourceMonitoringSubscriptionImport also sets distribution_id
Import ==
  /\ id = ""
  /\ \E i \in ImportIds(kind) :
       LET a == IF kind = "monitoring_subscription"
                THEN [MonitoringSubscriptionZero EXCEPT !.distribution_id = i]
                ELSE Zero(kind)
       IN Finish("import", [id |-> i, attrs |-> Zero(kind), prior |-> attrs, config |-> <<>>], FALSE, i, a, "ok",
                 <<>>, remote)

\* a step of another party
Environment(rem) ==
  /\ remote' = rem
  /\ op' = "env"
  /\ entry' = [id |-> id, attrs |-> attrs, prior |-> attrs, config |-> <<>>,
               left |-> [id |-> id, attrs |-> attrs]]
  /\ isNew' = FALSE
  /\ result' = "ok"
  /\ calls' = <<>>
  /\ UNCHANGED <<conv, kind, id, attrs>>

\* another party deletes the remote object
RemoteGone ==
  /\ remote.exists
  /\ Environment(NoRemote)

\* another party replaces the remote object's configuration
RemoteChanged ==
  /\ remote.exists
  /\ remote.etag < MaxETag
  /\ \E c \in Configs(kind) :
       LET a == Plan(kind, c, Zero(kind))
       IN /\ ~BuildPanics(kind, a)
          /\ Environment([remote EXCEPT !.config = CreateConfig(kind, a),
                                        !.etag = @ + 1])

(***************************************************************************)
(* The converters exercised on their own: conv holds one conversion chain. *)
(* A parameters block is expanded, the result flattened, and that expanded *)
(* again; an API object of one of the other families is flattened; a block *)
(* with access_control_max_age_sec is expanded, configured being the value *)
(* the configuration gave to that attribute.                               *)
(***************************************************************************)
ConvIdle == [family |-> "none", step |-> 0, tf |-> GoNil, api |-> None,
             tf2 |-> GoNil, api2 |-> None, aborted |-> FALSE, configured |-> None]

FlattenFamilies ==
  {"cache_policy_cookies_config", "frame_options", "referrer_policy",
   "strict_transport_security", "realtime_metrics_subscription_config"}

\* optional pointer fields of an API struct
OptBool == {None, Some(TRUE), Some(FALSE)}

\* the API objects a flatten function may be handed: every field present or not
ApiObjects(family) ==
  CASE family = "cache_policy_cookies_config" ->
         {Some([CookieBehavior |-> b, Cookies |-> c])
            : b \in {"", "none", "whitelist"},
              c \in {None} \cup {Some([Items |-> q, Quantity |-> Some(Len(q))])
                                   : q \in ItemSeqs}}
    [] family = "frame_options" ->
         {Some([FrameOption |-> f, Override |-> o]) : f \in {"", "DENY"}, o \in OptBool}
    [] family = "referrer_policy" ->
         {Some([ReferrerPolicy |-> f, Override |-> o])
            : f \in {"", "no-referrer"}, o \in OptBool}
    [] family = "strict_transport_security" ->
         {Some([AccessControlMaxAgeSec |-> m, IncludeSubdomains |-> i, Override |-> o,
                Preload |-> o])
            : m \in {None, Some(0), Some(ConfiguredMaxAgeSec)}, i \in OptBool,
              o \in OptBool}
    [] family = "realtime_metrics_subscription_config" ->
         {Some([RealtimeMetricsSubscriptionStatus |-> x]) : x \in {"", "Enabled"}}

FlattenOf(family, apiObject) ==
  CASE family = "cache_policy_parameters" ->
         flattenParametersInCacheKeyAndForwardedToOrigin(apiObject)
    [] family = "cache_policy_cookies_config" -> flattenCachePolicyCookiesConfig(apiObject)
    [] family = "frame_options" -> flattenResponseHeadersPolicyFrameOptions(apiObject)
    [] family = "referrer_policy" -> flattenResponseHeadersPolicyReferrerPolicy(apiObject)
    [] family = "strict_transport_security" ->
         flattenResponseHeadersPolicyStrictTransportSecurity(apiObject)
    [] family = "realtime_metrics_subscription_config" ->
         flattenRealtimeMetricsSubscriptionConfig(apiObject)

HandlersIdle ==
  /\ kind = "none"
  /\ id = ""
  /\ attrs = <<>>
  /\ isNew = FALSE
  /\ remote = NoRemote
  /\ calls = <<>>
  /\ op = "none"
  /\ result = "ok"
  /\ entry = [id |-> "", attrs |-> <<>>, prior |-> <<>>, config |-> <<>>,
              left |-> [id |-> "", attrs |-> <<>>]]

\* the blocks that hold an access_control_max_age_sec
ExpandFamilies == {"strict_transport_security_block", "cors_config_block"}

\* the values a configuration may give to access_control_max_age_sec
MaxAgeSecs == {0, 1, ConfiguredMaxAgeSec}

\* the blocks as d.Get hands them to expand, with the value the configuration
\* gave to access_control_max_age_sec: the attribute is Required in
\* strict_transport_security and Optional in cors_config, where a value left
\* out is stored as 0
TfBlocks(family) ==
  CASE family = "strict_transport_security_block" ->
         {[configured |-> Some(n),
           tf |-> GoMap([access_control_max_age_sec |-> GoInt(n),
                         include_subdomains |-> GoBool(b),
                         override |-> GoBool(o),
                         preload |-> GoBool(b)])]
            : n \in MaxAgeSecs, b \in BOOLEAN, o \in BOOLEAN}
    [] family = "cors_config_block" ->
         {[configured |-> n,
           tf |-> GoMap([TfCorsConfig.l[1].l[1] EXCEPT
                           !.access_control_max_age_sec = GoInt(IntValue(n)),
                           !.access_control_allow_credentials = GoBool(b),
                           !.origin_override = GoBool(o)])]
            : n \in {None} \cup {Some(v) : v \in MaxAgeSecs},
              b \in BOOLEAN, o \in BOOLEAN}

ExpandOf(family, tfMap) ==
  CASE family = "strict_transport_security_block" ->
         expandResponseHeadersPolicyStrictTransportSecurity(tfMap)
    [] family = "cors_config_block" -> expandResponseHeadersPolicyCorsConfig(tfMap)

\* the blocks that expand into an Items/Quantity wrapper
ListFamilies ==
  {"cookies", "headers", "query_strings", "access_control_allow_headers",
   "access_control_allow_methods", "access_control_allow_origins",
   "access_control_expose_headers", "custom_headers_config",
   "remove_headers_config"}

\* the elements a configuration may put into the items set of a block
ListElements(family) ==
  CASE family = "custom_headers_config" ->
         {GoMap([header |-> GoString(h), override |-> GoBool(h = "a"),
                 value |-> GoString("v1")]) : h \in ItemNames}
    [] family = "remove_headers_config" ->
         {GoMap([header |-> GoString(h)]) : h \in ItemNames}
    [] OTHER -> {GoString(h) : h \in ItemNames}

\* the blocks as expand is handed them: nil, or the map whose items is a set
\* of at most MaxItems distinct elements
TfLists(family) ==
  {GoNil} \cup
  {GoMap([items |-> GoSet(q)])
     : q \in UNION {{x \in [1..n -> ListElements(family)] :
                        \A i, j \in 1..n : x[i] = x[j] => i = j}
                     : n \in 0..MaxItems}}

ExpandListOf(family, tfMap) ==
  CASE family = "cookies" -> expandCookieNames(tfMap)
    [] family = "headers" -> expandHeaders(tfMap)
    [] family = "query_strings" -> expandQueryStringNames(tfMap)
    [] family = "access_control_allow_headers" ->
         expandResponseHeadersPolicyAccessControlAllowHeaders(tfMap)
    [] family = "access_control_allow_methods" ->
         expandResponseHeadersPolicyAccessControlAllowMethods(tfMap)
    [] family = "access_control_allow_origins" ->
         expandResponseHeadersPolicyAccessControlAllowOrigins(tfMap)
    [] family = "access_control_expose_headers" ->
         expandResponseHeadersPolicyAccessControlExposeHeaders(tfMap)
    [] family = "custom_headers_config" ->
         expandResponseHeadersPolicyCustomHeadersConfig(tfMap)
    [] family = "remove_headers_config" ->
         expandResponseHeadersPolicyRemoveHeadersConfig(tfMap)

ConvInit ==
  /\ HandlersIdle
  /\ \/ \E m \in TfParameters :
          conv = [ConvIdle EXCEPT !.family = "cache_policy_parameters", !.tf = m]
     \/ \E f \in ExpandFamilies : \E m \in TfBlocks(f) :
          conv = [ConvIdle EXCEPT !.family = f, !.tf = m.tf,
                                  !.configured = m.configured]
     \/ \E f \in ListFamilies : \E m \in TfLists(f) :
          conv = [ConvIdle EXCEPT !.family = f, !.tf = m]
     \/ \E f \in FlattenFamilies : \E o \in ApiObjects(f) :
          conv = [ConvIdle EXCEPT !.family = f, !.step = 1, !.api = o]

\* apiObject := expandParametersInCacheKeyAndForwardedToOrigin(tfMap)
ConvExpand ==
  /\ conv.family = "cache_policy_parameters"
  /\ conv.step = 0
  /\ conv' = IF expandParametersPanics(conv.tf)
             THEN [conv EXCEPT !.step = 1, !.aborted = TRUE]
             ELSE [conv EXCEPT !.step = 1,
                     !.api = expandParametersInCacheKeyAndForwardedToOrigin(conv.tf)]
  /\ UNCHANGED handlerVars

\* apiObject := expandResponseHeadersPolicyStrictTransportSecurity(tfMap),
\* apiObject := expandResponseHeadersPolicyCorsConfig(tfMap)
ConvExpandBlock ==
  /\ conv.family \in ExpandFamilies
  /\ conv.step = 0
  /\ conv' = [conv EXCEPT !.step = 1, !.api = ExpandOf(conv.family, conv.tf)]
  /\ UNCHANGED handlerVars

\* apiObject := expand<Wrapper>(tfMap) of an Items/Quantity wrapper
ConvExpandList ==
  /\ conv.family \in ListFamilies
  /\ conv.step = 0
  /\ conv' = [conv EXCEPT !.step = 1, !.api = ExpandListOf(conv.family, conv.tf)]
  /\ UNCHANGED handlerVars

\* tfMap := flatten<Family>(apiObject)
ConvFlatten ==
  /\ conv.family \notin ExpandFamilies \cup ListFamilies
  /\ conv.step = 1
  /\ ~conv.aborted
  /\ conv' = [conv EXCEPT !.step = 2, !.tf2 = FlattenOf(conv.family, conv.api)]
  /\ UNCHANGED handlerVars

\* expand applied to what flatten returned
ConvExpandAgain ==
  /\ conv.family = "cache_policy_parameters"
  /\ conv.step = 2
  /\ conv' = [conv EXCEPT !.step = 3,
                !.api2 = expandParametersInCacheKeyAndForwardedToOrigin(conv.tf2)]
  /\ UNCHANGED handlerVars

ConvNext ==
  ConvExpand \/ ConvExpandBlock \/ ConvExpandList \/ ConvFlatten \/ ConvExpandAgain

SpecConv == ConvInit /\ [][ConvNext]_vars

\* C7: for every schema-valid parameters block m,
\* expand(flatten(expand(m))) equals expand(m)
C7_RoundTrip ==
  (conv.family = "cache_policy_parameters" /\ conv.step = 3) => conv.api2 = conv.api

\* the API field a flattened key is taken from
FieldOf(k) ==
  CASE k = "cookie_behavior" -> "CookieBehavior"
    [] k = "cookies" -> "Cookies"
    [] k = "frame_option" -> "FrameOption"
    [] k = "override" -> "Override"
    [] k = "referrer_policy" -> "ReferrerPolicy"
    [] k = "access_control_max_age_sec" -> "AccessControlMaxAgeSec"
    [] k = "include_subdomains" -> "IncludeSubdomains"
    [] k = "preload" -> "Preload"
    [] k = "realtime_metrics_subscription_status" -> "RealtimeMetricsSubscriptionStatus"

\* the fields that are enum values rather than pointers: absent means ""
EnumFields ==
  {"CookieBehavior", "FrameOption", "ReferrerPolicy", "RealtimeMetricsSubscriptionStatus"}

FieldPresent(apiObject, f) ==
  IF f \in EnumFields THEN apiObject[1][f] # "" ELSE apiObject[1][f] # None

\* C10: a flattened map holds a key only when the API field it is taken from
\* is present, so an object with every field absent flattens to the empty map
C10_KeyOnlyWhenPresent ==
  (conv.family \in FlattenFamilies /\ conv.step = 2) =>
    \A k \in DOMAIN conv.tf2.l[1] :
      conv.tf2.l[1][k].t # "nil" => FieldPresent(conv.api, FieldOf(k))

(***************************************************************************)
(* The handlers: one resource of one kind, not yet created or already      *)
(* managed and in step with the remote object.                             *)
(***************************************************************************)
\* the remote object and the state of a resource created from configuration c
Managed(k, c) ==
  LET a == Plan(k, c, Zero(k))
      created ==
        IF k = "monitoring_subscription"
        THEN RemotePut(NoRemote, a.distribution_id, CreateConfig(k, a), FALSE).rem
        ELSE RemoteCreate(NoRemote, IF k = "function" THEN a.name ELSE AssignedId,
                          CreateConfig(k, a), FALSE).rem
      rem == IF k = "function" /\ a.publish
             THEN RemotePublish(created, created.id, created.etag, FALSE).rem
             ELSE created
  IN [id |-> rem.id, attrs |-> Refresh(k, a, rem), remote |-> rem]

Init ==
  /\ conv = ConvIdle
  /\ kind \in Kinds
  /\ \/ /\ id = ""
        /\ attrs = Zero(kind)
        /\ remote = NoRemote
     \/ \E c \in Configs(kind) :
          /\ ~BuildPanics(kind, Plan(kind, c, Zero(kind)))
          /\ id = Managed(kind, c).id
          /\ attrs = Managed(kind, c).attrs
          /\ remote = Managed(kind, c).remote
  /\ isNew = FALSE
  /\ calls = <<>>
  /\ op = "none"
  /\ result = "ok"
  /\ entry = [id |-> id, attrs |-> attrs, prior |-> attrs, config |-> <<>>,
              left |-> [id |-> id, attrs |-> attrs]]

Next ==
  \/ \E k \in PlainKinds : Create(k)
  \/ FunctionCreate
  \/ MonitoringSubscriptionCreate("create")
  \/ Read
  \/ \E k \in PlainKinds : Update(k)
  \/ FunctionUpdate
  \/ MonitoringSubscriptionCreate("update")
  \/ Delete
  \/ Import
  \/ RemoteGone
  \/ RemoteChanged

Spec == Init /\ [][Next]_vars

(***************************************************************************)
(* Properties of the handlers.                                             *)
(***************************************************************************)
HasCall(verb) == \E i \in DOMAIN calls : calls[i].api[1] = verb

\* the last handler was delete and the remote answered that the object does
\* not exist
DeleteMetNotFound ==
  /\ op = "delete"
  /\ calls # <<>>
  /\ calls[1].err.gotype = ErrNoSuch(TRUE).gotype

\* C1: a delete handler whose remote delete fails with CloudFront's "not
\* found" error returns no error
C1_DeleteNotFoundIsSuccess == DeleteMetNotFound => result = "ok"

\* the last handler was create, of a kind other than the monitoring
\* subscription, and it made its create call
CreateCalled ==
  /\ op = "create"
  /\ kind # "monitoring_subscription"
  /\ calls # <<>>

\* C2: once the create handler is over, the ID is the one in the remote's
\* create response if the create call succeeded, whatever the later publish or
\* read did, and empty if the create call failed
C2_IdAfterCreate ==
  CreateCalled =>
    IF calls[1].err = ErrNil
    THEN result # "panic" /\ remote.exists /\ id = remote.id
    ELSE id = ""

PolicyKinds == {"cache_policy", "origin_request_policy", "response_headers_policy"}

\* the nested blocks of a policy: attribute and API field
PolicyBlocks(k) ==
  CASE k = "cache_policy" ->
         {<<"parameters_in_cache_key_and_forwarded_to_origin",
            "ParametersInCacheKeyAndForwardedToOrigin">>}
    [] k = "origin_request_policy" ->
         {<<"cookies_config", "CookiesConfig">>, <<"headers_config", "HeadersConfig">>,
          <<"query_strings_config", "QueryStringsConfig">>}
    [] k = "response_headers_policy" ->
         {<<"cors_config", "CorsConfig">>,
          <<"custom_headers_config", "CustomHeadersConfig">>,
          <<"remove_headers_config", "RemoveHeadersConfig">>,
          <<"security_headers_config", "SecurityHeadersConfig">>,
          <<"server_timing_headers_config", "ServerTimingHeadersConfig">>}

\* the read handler of a policy returned without error and kept the ID
PolicyReadReturned ==
  /\ op = "read"
  /\ kind \in PolicyKinds
  /\ result = "ok"
  /\ id # ""

\* C3: after such a read, name, comment, etag and the TTLs are the remote's,
\* a block is unset exactly when the remote has none, and the blocks say what
\* the remote's say: expanded again they give the remote's configuration
C3_ReadCopiesRemote ==
  PolicyReadReturned =>
    /\ attrs.name = StringValue(remote.config.Name)
    /\ attrs.comment = StringValue(remote.config.Comment)
    /\ attrs.etag = remote.etag
    /\ kind = "cache_policy" =>
         /\ attrs.default_ttl = IntValue(remote.config.DefaultTTL)
         /\ attrs.max_ttl = IntValue(remote.config.MaxTTL)
         /\ attrs.min_ttl = IntValue(remote.config.MinTTL)
    /\ \A b \in PolicyBlocks(kind) :
         /\ (attrs[b[1]].l = <<>>) <=> (remote.config[b[2]] = None)
         /\ CreateConfig(kind, attrs)[b[2]] = remote.config[b[2]]

\* a read that found one block absent remotely and another present, after the
\* state had held both
C3_Witness ==
  /\ PolicyReadReturned
  /\ kind = "origin_request_policy"
  /\ remote.config.HeadersConfig = None
  /\ remote.config.CookiesConfig # None
  /\ entry.prior.headers_config.l # <<>>
  /\ attrs.headers_config.l = <<>>

\* C4: a read of a public key that exists remotely completes normally, returns
\* no error and sets caller_reference, comment, encoded_key, etag and name
C4_PublicKeyReadCompletes ==
  (kind = "public_key" /\ op = "read" /\ remote.exists /\ remote.id = entry.id) =>
    /\ result = "ok"
    /\ attrs.caller_reference = StringValue(remote.config.CallerReference)
    /\ attrs.comment = StringValue(remote.config.Comment)
    /\ attrs.encoded_key = StringValue(remote.config.EncodedKey)
    /\ attrs.etag = remote.etag
    /\ attrs.name = StringValue(remote.config.Name)

\* the last handler was the update of a policy or a public key and it made
\* its request
UpdateRequested ==
  /\ op = "update"
  /\ kind \in PlainKinds
  /\ calls # <<>>

C6_UpdateAlwaysCallsUpdateEndpoint ==
  (op = "update" /\ result # "panic") => HasCall("Update")

\* C6, amended: the update handlers of the policies and the public key always
\* call their update endpoint; the function's calls UpdateFunction exactly
\* when code, comment or runtime changed; the monitoring subscription's is
\* its create handler and calls CreateMonitoringSubscription
C6_UpdateEndpointPerKind ==
  (op = "update" /\ result # "panic") =>
    CASE kind \in PlainKinds -> calls # <<>> /\ calls[1].api = <<"Update", Noun(kind)>>
      [] kind = "function" ->
           HasCall("Update") <=>
             \/ entry.attrs.code # entry.prior.code
             \/ entry.attrs.comment # entry.prior.comment
             \/ entry.attrs.runtime # entry.prior.runtime
      [] kind = "monitoring_subscription" ->
           /\ calls # <<>>
           /\ calls[1].api = <<"Create", "MonitoringSubscription">>
           /\ ~HasCall("Update")

\* a function update that changed publish alone and made no UpdateFunction call
C6_Witness ==
  /\ op = "update"
  /\ kind = "function"
  /\ result = "ok"
  /\ entry.attrs.publish # entry.prior.publish
  /\ ~HasCall("Update")

MutatingVerbs == {"Create", "Update", "Delete", "Publish"}

\* C9: within one handler invocation no mutating endpoint is called twice and
\* no call follows a failed one
C9_NoRetry ==
  /\ \A i, j \in DOMAIN calls :
       (i < j /\ calls[i].api[1] \in MutatingVerbs) => calls[i].api # calls[j].api
  /\ \A i \in DOMAIN calls : calls[i].err # ErrNil => i = Len(calls)

\* a function update whose PublishFunction call failed after UpdateFunction
C9_Witness ==
  /\ op = "update"
  /\ kind = "function"
  /\ Len(calls) = 2
  /\ calls[1].err = ErrNil
  /\ calls[2].api[1] = "Publish"
  /\ calls[2].err # ErrNil
  /\ result = "error"

\* the TTL a request must carry: the configured value, or the schema's default
\* for an attribute the configuration leaves out
TTLSent(configured, default) ==
  IF configured = None THEN Some(default) ELSE Some(configured[1])

\* the last handler was the cache policy's create or update and it sent its
\* request
CachePolicyRequested ==
  /\ kind = "cache_policy"
  /\ op \in {"create", "update"}
  /\ calls # <<>>

\* C11: every cache policy create and update request carries DefaultTTL, MaxTTL
\* and MinTTL: the configured value unchanged, and 86400, 31536000 and 0 for a
\* default_ttl, max_ttl and min_ttl the configuration leaves out
C11_TTLsAlwaysSent ==
  CachePolicyRequested =>
    /\ calls[1].input.Config.DefaultTTL = TTLSent(entry.config.default_ttl, DefaultTTLDefault)
    /\ calls[1].input.Config.MaxTTL = TTLSent(entry.config.max_ttl, MaxTTLDefault)
    /\ calls[1].input.Config.MinTTL = TTLSent(entry.config.min_ttl, 0)

\* an update to a configuration without TTLs, of a policy whose state holds
\* configured TTLs: the request carries the defaults, not the state's values
C11_Witness ==
  /\ CachePolicyRequested
  /\ op = "update"
  /\ entry.config.default_ttl = None
  /\ entry.prior.default_ttl = ConfiguredTTL
  /\ calls[1].input.Config.DefaultTTL = Some(DefaultTTLDefault)
  /\ calls[1].input.Config.MinTTL = Some(0)
  /\ calls[1].err = ErrNil

\* the optional top-level blocks of the response headers policy: the attribute
\* and the field of the configuration object it is sent as
ResponseHeadersPolicyBlocks ==
  {<<"cors_config", "CorsConfig">>,
   <<"custom_headers_config", "CustomHeadersConfig">>,
   <<"remove_headers_config", "RemoveHeadersConfig">>,
   <<"security_headers_config", "SecurityHeadersConfig">>,
   <<"server_timing_headers_config", "ServerTimingHeadersConfig">>}

\* the last handler was the response headers policy's update, it sent its
\* request, and block b, held in the state before it, is gone from the
\* configuration
BlockRemoved(b) ==
  /\ kind = "response_headers_policy"
  /\ op = "update"
  /\ calls # <<>>
  /\ Len(entry.prior[b[1]].l) > 0
  /\ Len(entry.config[b[1]].l) = 0

\* C12: an update of a response headers policy whose configuration no longer
\* has a top-level block the policy was created with sends a request without
\* that block, and once the trailing read has returned without error the
\* block is unset in state
C12_RemovedBlockIsReplaced ==
  \A b \in ResponseHeadersPolicyBlocks :
    BlockRemoved(b) =>
      /\ calls[1].input.Config[b[2]] = None
      /\ (result = "ok" /\ id # "") => attrs[b[1]] = GoList(<<>>)

\* cors_config removed: the update went through, the remote object has no
\* CORS configuration any more and the state no cors_config
C12_Witness ==
  /\ BlockRemoved(<<"cors_config", "CorsConfig">>)
  /\ calls[1].err = ErrNil
  /\ result = "ok"
  /\ id # ""
  /\ remote.config.CorsConfig = None
  /\ attrs.cors_config = GoList(<<>>)

(***************************************************************************)
(* Properties of the converters and of the requests, continued.            *)
(***************************************************************************)
\* C13: expanding a strict_transport_security block, or a cors_config block
\* whose access_control_max_age_sec is configured, yields an object whose
\* AccessControlMaxAgeSec is present and equal to the configured value, 0
\* included
C13_MaxAgeSecCarried ==
  (conv.family \in ExpandFamilies /\ conv.step = 1 /\ conv.configured # None) =>
    conv.api[1].AccessControlMaxAgeSec = Some(conv.configured[1])

\* the create and update requests of the last handler, which was the create or
\* update handler of a resource with a comment
CommentRequests ==
  IF kind \in PlainKinds \cup {"function"} /\ op \in {"create", "update"}
  THEN {i \in DOMAIN calls : calls[i].api[1] \in {"Create", "Update"}}
  ELSE {}

\* the request carries Comment exactly when the configured comment is a
\* non-empty string, and then that string
CommentIfSet(i) ==
  calls[i].input.Config.Comment = GetOkString(entry.config.comment)

\* C14: the create and update requests of cache policy, origin request policy,
\* response headers policy, public key and function carry Comment exactly when
\* the configured comment is a non-empty string
C14_CommentOnlyWhenSet == \A i \in CommentRequests : CommentIfSet(i)

\* C14, amended: the requests of the four policies and keys carry Comment
\* exactly when the configured comment is non-empty; a function request always
\* carries Comment, the empty string when none is configured
C14_CommentPerKind ==
  \A i \in CommentRequests :
    IF kind = "function"
    THEN calls[i].input.Config.Comment = Some(entry.config.comment)
    ELSE CommentIfSet(i)

\* a function whose comment is taken out of the configuration: UpdateFunction
\* is sent with the empty comment and goes through
C14_Witness ==
  /\ kind = "function"
  /\ op = "update"
  /\ entry.prior.comment # ""
  /\ entry.config.comment = ""
  /\ CommentRequests # {}
  /\ calls[1].input.Config.Comment = Some("")
  /\ calls[1].err = ErrNil

\* call i is the fetch of the read handler: the Get* call, or for a function
\* the DescribeFunction call of the DEVELOPMENT stage
IsFetch(i) ==
  IF kind = "function"
  THEN calls[i].api[1] = "Describe" /\ calls[i].input.Stage = "DEVELOPMENT"
  ELSE calls[i].api[1] = "Get"

\* the read handler ran, on its own or at the end of create or update, and
\* its fetch reported the object missing
FetchNotFound ==
  /\ op \in {"read", "create", "update"}
  /\ \E i \in DOMAIN calls :
       IsFetch(i) /\ calls[i].err.gotype = ErrNoSuch(TRUE).gotype

\* C15: a read handler whose fetch reports not-found clears the ID, returns no
\* error and sets no attribute when the resource is not newly created, and
\* returns an error with the ID left set when it is
C15_ReadNotFound ==
  FetchNotFound =>
    IF isNew
    THEN result = "error" /\ entry.left.id # "" /\ id = entry.left.id
    ELSE result = "ok" /\ entry.left.id = "" /\ id = ""
         /\ entry.left.attrs = entry.attrs

\* a refresh of a resource that was deleted outside Terraform
C15_Witness ==
  /\ FetchNotFound
  /\ op = "read"
  /\ ~isNew
  /\ ~remote.exists
  /\ entry.id # ""
  /\ id = ""
  /\ result = "ok"

\* the create or update handler of a policy returned without error and the
\* policy is still in state
PolicyWritten ==
  /\ kind \in PolicyKinds
  /\ op \in {"create", "update"}
  /\ result = "ok"
  /\ id # ""

\* after such a handler the etag in state is the remote's current ETag
ETagIsCurrent == PolicyWritten => attrs.etag = remote.etag

\* the update or delete handler that comes next, with no step of another
\* party in between, sends that ETag as IfMatch
NextIfMatchIsCurrent ==
  (PolicyWritten /\ op' \in {"update", "delete"} /\ calls' # <<>>) =>
    /\ calls'[1].input.IfMatch = remote.etag
    /\ calls'[1].err # ErrPreconditionFailed

UpdateFailed ==
  /\ op = "update"
  /\ \E i \in DOMAIN calls : calls[i].api[1] = "Update" /\ calls[i].err # ErrNil

\* C17: an update handler whose remote update call fails returns an error,
\* makes no further call (no trailing read), and leaves d as it received it:
\* the ID and every attribute, etag included, are what they were on entry
C17_FailedUpdateChangesNothing ==
  UpdateFailed =>
    /\ result = "error"
    /\ Len(calls) = 1
    /\ entry.left.id = entry.id
    /\ entry.left.attrs = entry.attrs
    /\ id = entry.id
    /\ attrs.etag = entry.prior.etag

\* an update sent with the ETag of a policy that another party had changed:
\* the service refuses it
C17_Witness ==
  /\ UpdateFailed
  /\ kind = "origin_request_policy"
  /\ calls[1].err = ErrPreconditionFailed
  /\ result = "error"
  /\ id = entry.id
  /\ attrs.etag = entry.prior.etag

\* the last handler was the update of a resource with an etag: its Update*
\* request went through and a fetch of its trailing read failed with an error
\* other than not-found
ReadFailedAfterUpdate ==
  /\ op = "update"
  /\ kind \in PlainKinds \cup {"function"}
  /\ calls # <<>>
  /\ calls[1].api[1] = "Update"
  /\ calls[1].err = ErrNil
  /\ \E i \in DOMAIN calls :
       /\ calls[i].api[1] \in {"Get", "Describe"}
       /\ calls[i].err # ErrNil
       /\ calls[i].err.gotype # ErrNoSuch(TRUE).gotype

\* the handler returned an error although the remote object is the one the
\* request carried, under a new ETag
ReplacedButFailed ==
  /\ result = "error"
  /\ remote.config = calls[1].input.Config
  /\ remote.etag = calls[1].input.IfMatch + 1

\* C18: when the update call succeeds and the trailing read fails with an
\* error other than not-found, the handler returns an error, the remote
\* object is already replaced, and the etag in state is still the one from
\* before the update, which is no longer the remote's
C18_StaleETagAfterFailedRefresh ==
  ReadFailedAfterUpdate =>
    /\ ReplacedButFailed
    /\ attrs.etag = entry.prior.etag
    /\ attrs.etag # remote.etag

\* the first fetch of the read handler is the one that failed
FirstFetchFailed == \E i \in DOMAIN calls : IsFetch(i) /\ calls[i].err # ErrNil

\* C18, amended: the etag in state is still the one from before the update
\* when the read failed at its first fetch; a function read that fails at a
\* later fetch (GetFunction, DescribeFunction of the LIVE stage) has set etag
\* already, so the state holds the remote's new ETag
C18_ETagAfterFailedRefresh ==
  ReadFailedAfterUpdate =>
    /\ ReplacedButFailed
    /\ IF FirstFetchFailed
       THEN attrs.etag = entry.prior.etag /\ attrs.etag # remote.etag
       ELSE kind = "function" /\ attrs.etag = remote.etag

\* a cache policy replaced remotely by an update whose read then failed
C18_Witness ==
  /\ ReadFailedAfterUpdate
  /\ kind = "cache_policy"
  /\ result = "error"
  /\ remote.config = calls[1].input.Config
  /\ attrs.etag = entry.prior.etag
  /\ remote.etag = attrs.etag + 1

\* the last handler was the create or the update of a function
FunctionWritten == kind = "function" /\ op \in {"create", "update"}

\* the positions of the handler's PublishFunction calls
PublishCalls ==
  {i \in DOMAIN calls : calls[i].api = <<"Publish", "Function">>}

\* the handler called CreateFunction / UpdateFunction
FunctionMutated ==
  calls # <<>> /\ calls[1].api \in {<<"Create", "Function">>, <<"Update", "Function">>}

\* the remote steps that precede the publish step succeeded: the
\* CreateFunction call of a create, the UpdateFunction call of an update
\* that made one
FunctionMutationSucceeded ==
  IF op = "create" THEN FunctionMutated /\ calls[1].err = ErrNil
  ELSE FunctionMutated => calls[1].err = ErrNil

\* C19: create and update of a function call PublishFunction exactly when
\* publish is true and the preceding remote steps of the invocation
\* succeeded, at most once and before every fetch of the trailing read; its
\* IfMatch is the ETag returned by the invocation's CreateFunction or
\* UpdateFunction call (the remote's ETag, which PublishFunction leaves as it
\* is) or, when update made no UpdateFunction call, the etag held in state
C19_PublishStep ==
  FunctionWritten =>
    /\ PublishCalls # {} <=> (entry.attrs.publish /\ FunctionMutationSucceeded)
    /\ Cardinality(PublishCalls) <= 1
    /\ \A i \in PublishCalls :
         /\ i = (IF FunctionMutated THEN 2 ELSE 1)
         /\ \A j \in DOMAIN calls :
              calls[j].api[1] \in {"Get", "Describe"} => i < j
         /\ calls[i].input.Name = entry.attrs.name
         /\ calls[i].input.IfMatch =
              (IF FunctionMutated THEN remote.etag ELSE entry.prior.etag)

\* an update that changed the code and published it under the ETag that
\* UpdateFunction returned, and a trailing read after the two
C19_Witness ==
  /\ FunctionWritten
  /\ op = "update"
  /\ result = "ok"
  /\ Len(calls) = 5
  /\ calls[1].api = <<"Update", "Function">>
  /\ calls[2].api = <<"Publish", "Function">>
  /\ calls[2].err = ErrNil
  /\ calls[2].input.IfMatch = remote.etag
  /\ calls[2].input.IfMatch # entry.prior.etag

\* the last handler ran the function read to its end without error and kept
\* the function in state
FunctionReadOk ==
  /\ kind = "function"
  /\ op \in {"create", "update", "read"}
  /\ result = "ok"
  /\ id # ""

\* the positions of the DescribeFunction calls on the LIVE stage
LiveCalls ==
  {j \in DOMAIN calls :
     calls[j].api = <<"Describe", "Function">> /\ calls[j].input.Stage = "LIVE"}

\* the remote answered the LIVE stage's fetch as it stands: not-found exactly
\* when the function was never published
LiveAnswered ==
  \A j \in LiveCalls :
    (calls[j].err.gotype = ErrNoSuch(TRUE).gotype) <=> (remote.live = None)

\* C20: after a function read that returns without error, etag is the
\* DEVELOPMENT stage's ETag, and live_stage_etag is "" (0) when the LIVE
\* stage's fetch reported not-found and the LIVE stage's ETag otherwise; so
\* after a create with publish = false it is empty and after a create with
\* publish = true it is not
C20_LiveStageETag ==
  FunctionReadOk =>
    /\ LiveCalls # {}
    /\ attrs.etag = remote.etag
    /\ \A j \in LiveCalls :
         IF calls[j].err.gotype = ErrNoSuch(TRUE).gotype
         THEN attrs.live_stage_etag = 0
         ELSE remote.live # None /\ attrs.live_stage_etag = remote.live[1]
    /\ LiveAnswered =>
         /\ attrs.live_stage_etag = (IF remote.live = None THEN 0 ELSE remote.live[1])
         /\ op = "create" => (attrs.live_stage_etag # 0 <=> entry.attrs.publish)

\* a read of a function whose published version is older than its
\* DEVELOPMENT stage
C20_Witness ==
  /\ FunctionReadOk
  /\ LiveAnswered
  /\ remote.live # None
  /\ attrs.live_stage_etag = remote.live[1]
  /\ attrs.etag = remote.etag
  /\ attrs.etag # attrs.live_stage_etag

\* the last handler of a monitoring subscription returned without error and
\* kept the subscription in state
MonitoringSubscriptionKept ==
  /\ kind = "monitoring_subscription"
  /\ op \in {"create", "update", "import"}
  /\ result = "ok"
  /\ id # ""

\* the first call of the handler is `verb` on the distribution the resource
\* had as its ID when the handler began
AddressesDistribution(verb) ==
  /\ calls # <<>>
  /\ calls[1].api = <<verb, "MonitoringSubscription">>
  /\ calls[1].input.DistributionId = entry.id
  /\ entry.id = entry.prior.distribution_id

\* C21: after a successful create, update or import of a monitoring
\* subscription the resource ID is the distribution_id attribute; an update
\* that reaches its request issues CreateMonitoringSubscription (and no
\* update call) for that distribution, and delete addresses the same
\* distribution
C21_MonitoringSubscriptionIdentity ==
  kind = "monitoring_subscription" =>
    /\ MonitoringSubscriptionKept => id = attrs.distribution_id
    /\ id # "" => id = attrs.distribution_id
    /\ (op = "update" /\ result # "panic") =>
         /\ AddressesDistribution("Create")
         /\ \A i \in DOMAIN calls : calls[i].api[1] # "Update"
    /\ op = "delete" => AddressesDistribution("Delete")

\* an update of a monitoring subscription through the create handler
C21_Witness ==
  /\ MonitoringSubscriptionKept
  /\ op = "update"
  /\ AddressesDistribution("Create")
  /\ id = "ID1"
  /\ attrs.distribution_id = "ID1"
  /\ entry.attrs.monitoring_subscription # entry.prior.monitoring_subscription

\* the last handler of a public key sent its Create* / Update* request and
\* the remote accepted it
PublicKeyRequested(verb) ==
  /\ kind = "public_key"
  /\ calls # <<>>
  /\ calls[1].api = <<verb, "PublicKey">>
  /\ calls[1].err = ErrNil

WrapperExpanded ==
  conv.family \in ListFamilies /\ conv.step = 1 /\ conv.tf.t # "nil"

\* the number of elements of the configured set
ConfiguredCount == Len(Key(conv.tf, "items").l)

\* C23: in every list wrapper that expand produces, Quantity is set exactly
\* when Items is non-empty, and then it is the number of Items, which is the
\* number of elements of the configured set; for an empty set Items and
\* Quantity are both absent
C23_QuantityMatchesItems ==
  WrapperExpanded =>
    /\ conv.api # None
    /\ conv.api[1].Quantity # None <=> conv.api[1].Items # <<>>
    /\ conv.api[1].Quantity # None =>
         /\ conv.api[1].Quantity[1] = Len(conv.api[1].Items)
         /\ conv.api[1].Quantity[1] = ConfiguredCount
    /\ ConfiguredCount = 0 =>
         conv.api[1].Items = <<>> /\ conv.api[1].Quantity = None

\* the custom headers of a set of several elements, counted
C23_Witness ==
  /\ WrapperExpanded
  /\ conv.family = "custom_headers_config"
  /\ ConfiguredCount > 1
  /\ conv.api[1].Quantity = Some(ConfiguredCount)
  /\ Len(conv.api[1].Items) = ConfiguredCount

====
